---- MODULE Spec2Model ----
(***************************************************************************)
(* A model of streamdeck-rs: the connection establisher (socket.rs,        *)
(* Connect), the duplex socket (socket.rs, StreamDeckSocket), the address  *)
(* resolver (socket.rs, Address) and the message codec (lib.rs, Message).  *)
(*                                                                         *)
(* JSON text is modelled by the value it denotes, an object being the      *)
(* sequence of its members in the order they are written.                  *)
(***************************************************************************)
EXTENDS Integers, Sequences, FiniteSets, TLC

(***************************************************************************)
(* Bounds                                                                  *)
(***************************************************************************)
\* The most polls for which one transport operation answers NotReady.
MaxPending == 1
\* The most outbound messages the caller submits on a yielded socket.
MaxSends == 2

(***************************************************************************)
(* Option, JSON values                                                     *)
(***************************************************************************)
None == [some |-> FALSE]
Some(x) == [some |-> TRUE, v |-> x]

JNull == [t |-> "null"]
JBool(b) == [t |-> "bool", b |-> b]
JNum(n) == [t |-> "num", n |-> n]
JStr(s) == [t |-> "str", s |-> s]
JArr(a) == [t |-> "arr", a |-> a]
JObj(members) == [t |-> "obj", o |-> members]
Member(k, v) == [k |-> k, v |-> v]

\* A text frame of the web socket carrying the JSON text `json`.
Text(json) == [kind |-> "Text", body |-> json]

VARIABLES
    args,       \* what the caller passed to connect: address, event, uuid
    state,      \* Connect.state: Option<ConnectState>
    result,     \* what the last Connect::poll returned
    sock,       \* Option<StreamDeckSocket>: the socket Connect yielded
    net,        \* the transport: how each of its operations will answer
    ops,        \* the transport operations started so far, in order
    wire,       \* the frames the transport's sink accepted, in order
    stages,     \* the establishment stages entered so far, in order
    lastIo,     \* the transport operation polled last, and its answer
    sent,       \* the outbound messages the socket accepted, in order
    sendRet,    \* what the last operation on the socket's sink returned
    sinkIo,     \* the last operation on the socket's sink, and the transport's answer
    panicked,   \* a poll of a consumed Connect panicked
    dropped,    \* the Connect was dropped
    inbox,      \* what the transport's stream will answer, in order
    taken,      \* the answers of the transport's stream consumed so far
    pollRet,    \* what the last Stream::poll returned
    polled,     \* what every Stream::poll so far returned, in order
    probe,      \* how the frame in the inbox was made (SpecDecode)
    callArg,    \* the argument of the function called by itself
    callRet     \* what that function returned

connectVars == <<args, state, result, sock, net, ops, wire, stages, lastIo,
                 sent, sendRet, sinkIo, panicked, dropped>>
streamVars == <<inbox, taken, pollRet, polled, probe>>

vars == <<args, state, result, sock, net, ops, wire, stages, lastIo,
          sent, sendRet, sinkIo, panicked, dropped, inbox, taken, pollRet, polled, probe,
          callArg, callRet>>
callVars == <<callArg, callRet>>

(***************************************************************************)
(* url::Url, as far as socket.rs uses it                                   *)
(***************************************************************************)
\* The port the url crate knows for a scheme (None for a scheme it does not
\* know).
default_port(scheme) ==
    CASE scheme \in {"ws", "http"} -> Some(80)
      [] scheme \in {"wss", "https"} -> Some(443)
      [] OTHER -> None

\* Url::set_port: a port equal to the scheme's default is stored as absent.
set_port(url, port) ==
    [url EXCEPT !.port = IF port = default_port(url.scheme) THEN None ELSE port]

\* Url::with_default_port(|_| Err(())): the stored port, else the scheme's
\* default; Err when neither exists.
with_default_port(url) ==
    IF url.port.some THEN Some([host |-> url.host, port |-> url.port.v])
    ELSE IF default_port(url.scheme).some
         THEN Some([host |-> url.host, port |-> default_port(url.scheme).v])
         ELSE None

\* Url::parse("ws://localhost")
LocalhostUrl == [scheme |-> "ws",
                 host |-> [kind |-> "Domain", name |-> "localhost"],
                 port |-> None]

\* impl From<u16> for Address
AddressFromPort(value) == [url |-> set_port(LocalhostUrl, Some(value))]

\* impl From<Url> for Address
AddressFromUrl(value) == [url |-> value]

(***************************************************************************)
(* Connect                                                                 *)
(***************************************************************************)
\* serde_json::to_string(&Registration { event, uuid })
RegistrationJson(event, uuid) ==
    JObj(<<Member("event", JStr(event)), Member("uuid", JStr(uuid))>>)

\* ConnectState
UnsupportedScheme(scheme) == [tag |-> "UnsupportedScheme", scheme |-> scheme]
Connecting(future, url, event, uuid) ==
    [tag |-> "Connecting", future |-> future, url |-> url, event |-> event,
     uuid |-> uuid]
Negotiating(future, event, uuid) ==
    [tag |-> "Negotiating", future |-> future, event |-> event, uuid |-> uuid]
Registering(future) == [tag |-> "Registering", future |-> future]

\* connect taking every web socket scheme for the supported one.
connectAnyWebSocket(address, event, uuid) ==
    IF address.url.scheme \in {"ws", "wss"}
    THEN LET end == with_default_port(address.url).v
         IN  [state |-> Some(Connecting([target |-> end], address.url, event, uuid)),
              ops |-> <<"tcp_connect">>]
    ELSE [state |-> Some(UnsupportedScheme(address.url.scheme)),
          ops |-> <<>>]

\* connect taking the port as the Url stores it, 0 when it stores none.
connectStoredPort(address, event, uuid) ==
    IF address.url.scheme = "ws"
    THEN LET end == [host |-> address.url.host,
                     port |-> IF address.url.port.some
                              THEN address.url.port.v ELSE 0]
         IN  [state |-> Some(Connecting([target |-> end], address.url, event, uuid)),
              ops |-> <<"tcp_connect">>]
    ELSE [state |-> Some(UnsupportedScheme(address.url.scheme)),
          ops |-> <<>>]

\* StreamDeckSocket::connect: the Connect it returns, and the transport
\* operations it started.
connect(address, event, uuid) ==
    IF address.url.scheme = "ws"
    THEN LET end == with_default_port(address.url).v
         IN  [state |-> Some(Connecting([target |-> end], address.url, event, uuid)),
              ops |-> <<"tcp_connect">>]
    ELSE [state |-> Some(UnsupportedScheme(address.url.scheme)),
          ops |-> <<>>]

\* Poll<StreamDeckSocket, ConnectError>
NotReady == [tag |-> "NotReady"]
Ready(socket) == [tag |-> "Ready", socket |-> socket]
Err(kind, cause) == [tag |-> "Err", kind |-> kind, cause |-> cause]
\* No value yet: the loop of Connect::poll goes round again.
Continue == [tag |-> "Continue"]
Panic == [tag |-> "Panic"]

\* One poll of a transport future that answers NotReady `left` more times
\* and then completes, successfully if `ok`.
Answer(script) ==
    IF script.left > 0 THEN "NotReady" ELSE IF script.ok THEN "Ready" ELSE "Err"
Advance(script) ==
    IF script.left > 0 THEN [script EXCEPT !.left = @ - 1] ELSE script

\* futures::sink::Send::poll on the future built by stream.send(message):
\* start_send while the item is still held, then poll_complete; the sink is
\* given back when both have completed. `m` is the machine of PollStep.
SendPoll(m, future) ==
    LET start == IF future.item.some THEN Answer(m.net.ss) ELSE "Ready"
        net1 == IF future.item.some
                THEN [m.net EXCEPT !.ss = Advance(@)] ELSE m.net
        wire1 == IF future.item.some /\ start = "Ready"
                 THEN Append(m.wire, future.item.v) ELSE m.wire
        flush == Answer(net1.pc)
    IN  IF start = "NotReady"
        THEN [answer |-> "NotReady", future |-> future, net |-> net1,
              wire |-> wire1, io |-> [op |-> "start_send", answer |-> start]]
        ELSE IF start = "Err"
        THEN [answer |-> "Err", future |-> future, net |-> net1,
              wire |-> wire1, io |-> [op |-> "start_send", answer |-> start]]
        ELSE [answer |-> flush,
              future |-> [future EXCEPT !.item = None],
              net |-> [net1 EXCEPT !.pc = Advance(@)],
              wire |-> wire1,
              io |-> [op |-> "poll_complete", answer |-> flush]]

\* PollConnecting with the event name and the uuid handed on in each other's
\* place.
PollConnectingSwapped(m, s) ==
    LET answer == Answer(m.net.tcp)
        net1 == [m.net EXCEPT !.tcp = Advance(@)]
        io == [op |-> "tcp_connect", answer |-> answer]
        stream == [target |-> s.future.target, nodelay |-> m.net.nodelay,
                   upgraded |-> FALSE]
    IN  CASE answer = "Ready" ->
               [m EXCEPT !.state = Some(Negotiating([url |-> s.url, stream |-> stream],
                                                    s.uuid, s.event)),
                         !.net = net1, !.lastIo = io,
                         !.ops = @ \o <<"set_nodelay", "client_async">>,
                         !.stages = Append(@, "Negotiating")]
          [] answer = "NotReady" ->
               [m EXCEPT !.state = Some(s), !.net = net1, !.lastIo = io,
                         !.ret = NotReady]
          [] OTHER ->
               [m EXCEPT !.state = None, !.net = net1, !.lastIo = io,
                         !.ret = Err("ConnectionError", "tcp_connect")]

\* PollConnecting sending the registration over the connection as it is,
\* without the upgrade.
PollConnectingNoUpgrade(m, s) ==
    LET answer == Answer(m.net.tcp)
        net1 == [m.net EXCEPT !.tcp = Advance(@)]
        io == [op |-> "tcp_connect", answer |-> answer]
        stream == [target |-> s.future.target, nodelay |-> m.net.nodelay,
                   upgraded |-> FALSE]
        message == RegistrationJson(s.event, s.uuid)
    IN  CASE answer = "Ready" ->
               [m EXCEPT !.state = Some(Registering([sink |-> stream,
                                                     item |-> Some(Text(message))])),
                         !.net = net1, !.lastIo = io,
                         !.ops = @ \o <<"set_nodelay", "send">>,
                         !.stages = Append(@, "Registering")]
          [] answer = "NotReady" ->
               [m EXCEPT !.state = Some(s), !.net = net1, !.lastIo = io,
                         !.ret = NotReady]
          [] OTHER ->
               [m EXCEPT !.state = None, !.net = net1, !.lastIo = io,
                         !.ret = Err("ConnectionError", "tcp_connect")]

\* PollConnecting starting the connect again when it failed.
PollConnectingRetry(m, s) ==
    LET answer == Answer(m.net.tcp)
        net1 == [m.net EXCEPT !.tcp = Advance(@)]
        io == [op |-> "tcp_connect", answer |-> answer]
        stream == [target |-> s.future.target, nodelay |-> m.net.nodelay,
                   upgraded |-> FALSE]
    IN  CASE answer = "Ready" ->
               [m EXCEPT !.state = Some(Negotiating([url |-> s.url, stream |-> stream],
                                                    s.event, s.uuid)),
                         !.net = net1, !.lastIo = io,
                         !.ops = @ \o <<"set_nodelay", "client_async">>,
                         !.stages = Append(@, "Negotiating")]
          [] answer = "NotReady" ->
               [m EXCEPT !.state = Some(s), !.net = net1, !.lastIo = io,
                         !.ret = NotReady]
          [] OTHER ->
               [m EXCEPT !.state = Some(s), !.net = net1, !.lastIo = io,
                         !.ops = Append(@, "tcp_connect"),
                         !.ret = NotReady]

\* PollConnecting returning NotReady once the TCP connect is done, the
\* upgrade left to the next call.
PollConnectingYields(m, s) ==
    LET answer == Answer(m.net.tcp)
        net1 == [m.net EXCEPT !.tcp = Advance(@)]
        io == [op |-> "tcp_connect", answer |-> answer]
        stream == [target |-> s.future.target, nodelay |-> m.net.nodelay,
                   upgraded |-> FALSE]
    IN  CASE answer = "Ready" ->
               [m EXCEPT !.state = Some(Negotiating([url |-> s.url, stream |-> stream],
                                                    s.event, s.uuid)),
                         !.net = net1, !.lastIo = io,
                         !.ops = @ \o <<"set_nodelay", "client_async">>,
                         !.stages = Append(@, "Negotiating"),
                         !.ret = NotReady]
          [] answer = "NotReady" ->
               [m EXCEPT !.state = Some(s), !.net = net1, !.lastIo = io,
                         !.ret = NotReady]
          [] OTHER ->
               [m EXCEPT !.state = None, !.net = net1, !.lastIo = io,
                         !.ret = Err("ConnectionError", "tcp_connect")]

\* PollConnecting reporting a set_nodelay that failed as ConnectionError.
PollConnectingNodelayFails(m, s) ==
    LET answer == Answer(m.net.tcp)
        net1 == [m.net EXCEPT !.tcp = Advance(@)]
        io == [op |-> "tcp_connect", answer |-> answer]
        stream == [target |-> s.future.target, nodelay |-> m.net.nodelay,
                   upgraded |-> FALSE]
    IN  CASE answer = "Ready" /\ m.net.nodelay ->
               [m EXCEPT !.state = Some(Negotiating([url |-> s.url, stream |-> stream],
                                                    s.event, s.uuid)),
                         !.net = net1, !.lastIo = io,
                         !.ops = @ \o <<"set_nodelay", "client_async">>,
                         !.stages = Append(@, "Negotiating")]
          [] answer = "Ready" ->
               [m EXCEPT !.state = None, !.net = net1, !.lastIo = io,
                         !.ops = Append(@, "set_nodelay"),
                         !.ret = Err("ConnectionError", "set_nodelay")]
          [] answer = "NotReady" ->
               [m EXCEPT !.state = Some(s), !.net = net1, !.lastIo = io,
                         !.ret = NotReady]
          [] OTHER ->
               [m EXCEPT !.state = None, !.net = net1, !.lastIo = io,
                         !.ret = Err("ConnectionError", "tcp_connect")]

\* The arm of Connect::poll for the Connecting state.
PollConnecting(m, s) ==
    LET answer == Answer(m.net.tcp)
        net1 == [m.net EXCEPT !.tcp = Advance(@)]
        io == [op |-> "tcp_connect", answer |-> answer]
        \* the stream the future yields; set_nodelay's result is dropped
        stream == [target |-> s.future.target, nodelay |-> m.net.nodelay,
                   upgraded |-> FALSE]
    IN  CASE answer = "Ready" ->
               [m EXCEPT !.state = Some(Negotiating([url |-> s.url, stream |-> stream],
                                                    s.event, s.uuid)),
                         !.net = net1, !.lastIo = io,
                         !.ops = @ \o <<"set_nodelay", "client_async">>,
                         !.stages = Append(@, "Negotiating")]
          [] answer = "NotReady" ->
               [m EXCEPT !.state = Some(s), !.net = net1, !.lastIo = io,
                         !.ret = NotReady]
          [] OTHER ->
               [m EXCEPT !.state = None, !.net = net1, !.lastIo = io,
                         !.ret = Err("ConnectionError", "tcp_connect")]

\* PollNegotiating yielding the socket as soon as the upgrade is done, the
\* registration left out.
PollNegotiatingNoRegistration(m, s) ==
    LET answer == Answer(m.net.hs)
        net1 == [m.net EXCEPT !.hs = Advance(@)]
        io == [op |-> "client_async", answer |-> answer]
        stream == [s.future.stream EXCEPT !.upgraded = TRUE]
    IN  CASE answer = "Ready" ->
               [m EXCEPT !.state = None, !.net = net1, !.lastIo = io,
                         !.stages = Append(@, "Ready"),
                         !.ret = Ready([inner |-> stream])]
          [] answer = "NotReady" ->
               [m EXCEPT !.state = Some(s), !.net = net1, !.lastIo = io,
                         !.ret = NotReady]
          [] OTHER ->
               [m EXCEPT !.state = None, !.net = net1, !.lastIo = io,
                         !.ret = Err("ProtocolError", "client_async")]

\* PollNegotiating reporting a failed upgrade as ConnectionError.
PollNegotiatingWrongKind(m, s) ==
    LET answer == Answer(m.net.hs)
        net1 == [m.net EXCEPT !.hs = Advance(@)]
        io == [op |-> "client_async", answer |-> answer]
        stream == [s.future.stream EXCEPT !.upgraded = TRUE]
        message == RegistrationJson(s.event, s.uuid)
    IN  CASE answer = "Ready" ->
               [m EXCEPT !.state = Some(Registering([sink |-> stream,
                                                     item |-> Some(Text(message))])),
                         !.net = net1, !.lastIo = io,
                         !.ops = Append(@, "send"),
                         !.stages = Append(@, "Registering")]
          [] answer = "NotReady" ->
               [m EXCEPT !.state = Some(s), !.net = net1, !.lastIo = io,
                         !.ret = NotReady]
          [] OTHER ->
               [m EXCEPT !.state = None, !.net = net1, !.lastIo = io,
                         !.ret = Err("ConnectionError", "client_async")]

\* The arm of Connect::poll for the Negotiating state.
PollNegotiating(m, s) ==
    LET answer == Answer(m.net.hs)
        net1 == [m.net EXCEPT !.hs = Advance(@)]
        io == [op |-> "client_async", answer |-> answer]
        stream == [s.future.stream EXCEPT !.upgraded = TRUE]
        message == RegistrationJson(s.event, s.uuid)
    IN  CASE answer = "Ready" ->
               [m EXCEPT !.state = Some(Registering([sink |-> stream,
                                                     item |-> Some(Text(message))])),
                         !.net = net1, !.lastIo = io,
                         !.ops = Append(@, "send"),
                         !.stages = Append(@, "Registering")]
          [] answer = "NotReady" ->
               [m EXCEPT !.state = Some(s), !.net = net1, !.lastIo = io,
                         !.ret = NotReady]
          [] OTHER ->
               [m EXCEPT !.state = None, !.net = net1, !.lastIo = io,
                         !.ret = Err("ProtocolError", "client_async")]

\* PollRegistering not storing the pending future back.
PollRegisteringDropsState(m, s) ==
    LET p == SendPoll(m, s.future)
    IN  CASE p.answer = "Ready" ->
               [m EXCEPT !.state = None, !.net = p.net, !.wire = p.wire,
                         !.lastIo = p.io,
                         !.stages = Append(@, "Ready"),
                         !.ret = Ready([inner |-> p.future.sink])]
          [] p.answer = "NotReady" ->
               [m EXCEPT !.state = None, !.net = p.net,
                         !.wire = p.wire, !.lastIo = p.io, !.ret = NotReady]
          [] OTHER ->
               [m EXCEPT !.state = None, !.net = p.net, !.wire = p.wire,
                         !.lastIo = p.io,
                         !.ret = Err("SendError", p.io.op)]

\* PollRegistering leaving the future in the state when it returns the
\* socket.
PollRegisteringKeepsState(m, s) ==
    LET p == SendPoll(m, s.future)
    IN  CASE p.answer = "Ready" ->
               [m EXCEPT !.state = Some(Registering(p.future)), !.net = p.net,
                         !.wire = p.wire, !.lastIo = p.io,
                         !.stages = Append(@, "Ready"),
                         !.ret = Ready([inner |-> p.future.sink])]
          [] p.answer = "NotReady" ->
               [m EXCEPT !.state = Some(Registering(p.future)), !.net = p.net,
                         !.wire = p.wire, !.lastIo = p.io, !.ret = NotReady]
          [] OTHER ->
               [m EXCEPT !.state = None, !.net = p.net, !.wire = p.wire,
                         !.lastIo = p.io,
                         !.ret = Err("SendError", p.io.op)]

\* The arm of Connect::poll for the Registering state.
PollRegistering(m, s) ==
    LET p == SendPoll(m, s.future)
    IN  CASE p.answer = "Ready" ->
               [m EXCEPT !.state = None, !.net = p.net, !.wire = p.wire,
                         !.lastIo = p.io,
                         !.stages = Append(@, "Ready"),
                         !.ret = Ready([inner |-> p.future.sink])]
          [] p.answer = "NotReady" ->
               [m EXCEPT !.state = Some(Registering(p.future)), !.net = p.net,
                         !.wire = p.wire, !.lastIo = p.io, !.ret = NotReady]
          [] OTHER ->
               [m EXCEPT !.state = None, !.net = p.net, !.wire = p.wire,
                         !.lastIo = p.io,
                         !.ret = Err("SendError", p.io.op)]

\* One turn of the loop of Connect::poll: self.state.take() and the match.
PollStep(m) ==
    IF ~m.state.some THEN [m EXCEPT !.ret = Panic]
    ELSE LET s == m.state.v
         IN  CASE s.tag = "UnsupportedScheme" ->
                    [m EXCEPT !.state = None,
                              !.ret = Err("UnsupportedScheme", s.scheme)]
               [] s.tag = "Connecting" -> PollConnecting(m, s)
               [] s.tag = "Negotiating" -> PollNegotiating(m, s)
               [] OTHER -> PollRegistering(m, s)

\* The loop of Connect::poll, run until it returns or breaks.
RECURSIVE PollLoop(_)
PollLoop(m) ==
    IF m.ret.tag # "Continue" THEN m ELSE PollLoop(PollStep(m))

(***************************************************************************)
(* The codec: the types lib.rs derives Serialize and Deserialize for, and  *)
(* what serde and serde_json do with them                                  *)
(***************************************************************************)
TString == [k |-> "String"]
TU8 == [k |-> "u8"]
TI64 == [k |-> "i64"]
TBool == [k |-> "bool"]
TValue == [k |-> "Value"]
TTarget == [k |-> "Target"]
TAlignment == [k |-> "Alignment"]
TDeviceType == [k |-> "DeviceType"]
TOption(T) == [k |-> "Option", of |-> T]
TTuple(Ts) == [k |-> "Tuple", of |-> Ts]
TStruct(fields) == [k |-> "Struct", fields |-> fields]
TVec(T) == [k |-> "Vec", of |-> T]
TLanguage == [k |-> "Language"]
TPlatform == [k |-> "Platform"]
\* A field under its name on the wire (rename_all = "camelCase").
Field(name, T) == [name |-> name, type |-> T, skip |-> FALSE]
\* A field with skip_serializing_if = "Option::is_none".
SkipField(name, T) == [name |-> name, type |-> T, skip |-> TRUE]

U8Max == 255

\* The types the caller binds the parameters G, S and M to.
GType == TStruct(<<Field("theme", TString)>>)
SType == TStruct(<<Field("level", TU8)>>)
MType == TString

Coordinates == TStruct(<<Field("column", TU8), Field("row", TU8)>>)
KeyPayload ==
    TStruct(<<Field("settings", SType), Field("coordinates", TOption(Coordinates)),
              Field("state", TOption(TU8)),
              Field("userDesiredState", TOption(TU8))>>)
VisibilityPayload ==
    TStruct(<<Field("settings", SType), Field("coordinates", TOption(Coordinates)),
              Field("state", TOption(TU8))>>)
TitleParameters ==
    TStruct(<<Field("fontFamily", TString), Field("fontSize", TU8),
              Field("fontStyle", TString), Field("fontUnderline", TBool),
              Field("showTitle", TBool), Field("titleAlignment", TAlignment),
              Field("titleColor", TString)>>)
TitleParametersPayload ==
    TStruct(<<Field("settings", SType), Field("coordinates", Coordinates),
              Field("state", TOption(TU8)), Field("title", TString),
              Field("titleParameters", TitleParameters)>>)
GlobalSettingsPayload == TStruct(<<Field("settings", GType)>>)
TouchTapPayload ==
    TStruct(<<Field("settings", SType), Field("coordinates", TOption(Coordinates)),
              Field("tapPos", TTuple(<<TU8, TU8>>)), Field("hold", TBool)>>)
DialDownPayload ==
    TStruct(<<Field("settings", SType), Field("coordinates", TOption(Coordinates))>>)
DialUpPayload ==
    TStruct(<<Field("settings", SType), Field("coordinates", TOption(Coordinates))>>)
DialRotatePayload ==
    TStruct(<<Field("settings", SType), Field("coordinates", TOption(Coordinates)),
              Field("ticks", TI64), Field("pressed", TBool)>>)
DeviceSize == TStruct(<<Field("columns", TU8), Field("rows", TU8)>>)
DeviceInfo ==
    TStruct(<<Field("name", TOption(TString)), Field("size", DeviceSize),
              Field("type", TOption(TDeviceType))>>)
ApplicationPayload == TStruct(<<Field("application", TString)>>)

\* A variant of an enum tagged by "event": its name in Rust, its tag on the
\* wire and its fields (none for a unit variant).
Variant(name, tag, fields) == [name |-> name, tag |-> tag, fields |-> fields]

ActionFields(payload) ==
    <<Field("action", TString), Field("context", TString),
      Field("device", TString), Field("payload", payload)>>
VisibleFields(payload) ==
    <<Field("action", TString), Field("context", TString),
      Field("device", TOption(TString)), Field("payload", payload)>>
InspectorFields ==
    <<Field("action", TString), Field("context", TString),
      Field("device", TString)>>

\* enum Message<G, S, M>, the variant marked #[serde(other)] left out.
MessageVariants ==
    << Variant("KeyDown", "keyDown", ActionFields(KeyPayload)),
       Variant("KeyUp", "keyUp", ActionFields(KeyPayload)),
       Variant("WillAppear", "willAppear", VisibleFields(VisibilityPayload)),
       Variant("WillDisappear", "willDisappear", VisibleFields(VisibilityPayload)),
       Variant("TitleParametersDidChange", "titleParametersDidChange",
               VisibleFields(TitleParametersPayload)),
       Variant("DeviceDidConnect", "deviceDidConnect",
               <<Field("device", TString), Field("deviceInfo", DeviceInfo)>>),
       Variant("DeviceDidDisconnect", "deviceDidDisconnect",
               <<Field("device", TString)>>),
       Variant("ApplicationDidLaunch", "applicationDidLaunch",
               <<Field("payload", ApplicationPayload)>>),
       Variant("ApplicationDidTerminate", "applicationDidTerminate",
               <<Field("payload", ApplicationPayload)>>),
       Variant("SendToPlugin", "sendToPlugin",
               <<Field("action", TString), Field("context", TString),
                 Field("payload", MType)>>),
       Variant("DidReceiveSettings", "didReceiveSettings", ActionFields(KeyPayload)),
       Variant("PropertyInspectorDidAppear", "propertyInspectorDidAppear",
               InspectorFields),
       Variant("PropertyInspectorDidDisappear", "propertyInspectorDidDisappear",
               InspectorFields),
       Variant("DidReceiveGlobalSettings", "didReceiveGlobalSettings",
               <<Field("payload", GlobalSettingsPayload)>>),
       Variant("SystemDidWakeUp", "systemDidWakeUp", <<>>),
       Variant("TouchTap", "touchTap", ActionFields(TouchTapPayload)),
       Variant("DialDown", "dialDown", ActionFields(DialDownPayload)),
       Variant("DialUp", "dialUp", ActionFields(DialUpPayload)),
       Variant("DialRotate", "dialRotate", ActionFields(DialRotatePayload)) >>

\* The variant of Message marked #[serde(other)].
UnknownVariant == Variant("Unknown", "unknown", <<>>)

\* Result<T, serde_json::Error>
Ok(v) == [ok |-> TRUE, v |-> v]
Bad == [ok |-> FALSE]

\* The names of the variants of Alignment and Target, by their wire form.
AlignmentOf(s) ==
    CASE s = "top" -> "Top" [] s = "middle" -> "Middle" [] OTHER -> "Bottom"
AlignmentNames == {"top", "middle", "bottom"}
\* TargetOf with the codes of Hardware and Software exchanged.
TargetOfSwapped(n) == CASE n = 0 -> "Both" [] n = 1 -> "Software" [] OTHER -> "Hardware"
TargetOf(n) == CASE n = 0 -> "Both" [] n = 1 -> "Hardware" [] OTHER -> "Software"
TargetCodes == {0, 1, 2}
\* Visitor::visit_u64 of DeviceType
DeviceTypeOf(n) ==
    CASE n = 0 -> [variant |-> "StreamDeck"]
      [] n = 1 -> [variant |-> "StreamDeckMini"]
      [] n = 2 -> [variant |-> "StreamDeckXl"]
      [] n = 3 -> [variant |-> "StreamDeckMobile"]
      [] n = 4 -> [variant |-> "CorsairGKeys"]
      [] n = 5 -> [variant |-> "StreamDeckPedal"]
      [] n = 6 -> [variant |-> "CorsairVoyager"]
      [] n = 7 -> [variant |-> "StreamDeckPlus"]
      [] OTHER -> [variant |-> "Unknown", value |-> n]

(***************************************************************************)
(* Color                                                                   *)
(***************************************************************************)
\* A str is the sequence of its characters. Every character is one byte
\* long but "e-acute", which stands for a character of two bytes.
WideChars == {"e-acute"}
Width(c) == IF c \in WideChars THEN 2 ELSE 1

RECURSIVE StartsFrom(_, _)
\* The byte offsets at which the characters of `str` start when the first
\* starts at `at`, and after them the offset of the end.
StartsFrom(str, at) ==
    IF str = <<>> THEN <<at>>
    ELSE <<at>> \o StartsFrom(Tail(str), at + Width(Head(str)))
\* str::len: the length in bytes.
ByteLen(str) == StartsFrom(str, 0)[Len(str) + 1]
\* &str[a..b]: the characters from byte a up to byte b; a panic when a or b
\* is inside a character or past the end.
Slice(str, a, b) ==
    LET starts == StartsFrom(str, 0)
        at(n) == {i \in DOMAIN starts : starts[i] = n}
    IN  IF at(a) # {} /\ at(b) # {} /\ a <= b
        THEN [tag |-> "Ok",
              v |-> SubSeq(str, CHOOSE i \in at(a) : TRUE,
                           (CHOOSE j \in at(b) : TRUE) - 1)]
        ELSE [tag |-> "Panic"]

\* The hexadecimal digits, by value.
HexLower == <<"0", "1", "2", "3", "4", "5", "6", "7", "8", "9",
              "a", "b", "c", "d", "e", "f">>
HexUpper == <<"0", "1", "2", "3", "4", "5", "6", "7", "8", "9",
              "A", "B", "C", "D", "E", "F">>
IsHex(c) == \E i \in DOMAIN HexLower : c = HexLower[i] \/ c = HexUpper[i]
HexValue(c) == (CHOOSE i \in DOMAIN HexLower : c = HexLower[i] \/ c = HexUpper[i]) - 1

RECURSIVE Radix16(_, _)
\* The number the hexadecimal digits `digits` continue `acc` to.
Radix16(digits, acc) ==
    IF digits = <<>> THEN acc
    ELSE Radix16(Tail(digits), acc * 16 + HexValue(Head(digits)))

\* u8::from_str_radix(src, 16): one leading "+" is passed over; then at
\* least one digit, only digits, and a value that fits a u8.
from_str_radix(src) ==
    LET digits == IF src # <<>> /\ Head(src) = "+" THEN Tail(src) ELSE src
        n == Radix16(digits, 0)
    IN  IF digits = <<>> \/ \E i \in DOMAIN digits : ~IsHex(digits[i])
        THEN [tag |-> "Err"]
        ELSE IF n > U8Max THEN [tag |-> "Err"]
        ELSE [tag |-> "Ok", v |-> n]

\* format!("{:x}", n): the digits of n, as many as it has.
HexUnpadded(n) ==
    IF n < 16 THEN <<HexLower[n + 1]>>
    ELSE <<HexLower[(n \div 16) + 1], HexLower[(n % 16) + 1]>>

\* format!("{:02x}", n) of a u8
Hex2(n) == <<HexLower[(n \div 16) + 1], HexLower[(n % 16) + 1]>>

\* enum Color
Rgb(r, g, b) == [variant |-> "Rgb", r |-> r, g |-> g, b |-> b]
Rgba(r, g, b, a) == [variant |-> "Rgba", r |-> r, g |-> g, b |-> b, a |-> a]

\* Serialize for Color: the str handed to serialize_str.
SerializeColor(c) ==
    IF c.variant = "Rgb" THEN <<"#">> \o Hex2(c.r) \o Hex2(c.g) \o Hex2(c.b)
    ELSE <<"#">> \o Hex2(c.r) \o Hex2(c.g) \o Hex2(c.b) \o Hex2(c.a)

\* parse_component on the slice &value[a..b]
parse_component(value, a, b) ==
    LET slice == Slice(value, a, b)
    IN  IF slice.tag = "Panic" THEN [tag |-> "Panic"]
        ELSE from_str_radix(slice.v)

\* parse_rgb: the first of the three components that is not parsed ends it.
parse_rgb(value) ==
    LET first == Slice(value, 0, 1)
        r == parse_component(value, 1, 3)
        g == parse_component(value, 3, 5)
        b == parse_component(value, 5, 7)
    IN  CASE first.tag = "Panic" -> [tag |-> "Panic"]
          [] first.v # <<"#">> -> [tag |-> "Err"]
          [] r.tag # "Ok" -> r
          [] g.tag # "Ok" -> g
          [] b.tag # "Ok" -> b
          [] OTHER -> [tag |-> "Ok", r |-> r.v, g |-> g.v, b |-> b.v]

\* Visitor::visit_str of Color
visit_str(value) ==
    LET rgb == parse_rgb(value)
        a == parse_component(value, 7, 9)
    IN  CASE ByteLen(value) = 7 ->
               IF rgb.tag # "Ok" THEN rgb
               ELSE [tag |-> "Ok", v |-> Rgb(rgb.r, rgb.g, rgb.b)]
          [] ByteLen(value) = 9 ->
               IF rgb.tag # "Ok" THEN rgb
               ELSE IF a.tag # "Ok" THEN a
               ELSE [tag |-> "Ok", v |-> Rgba(rgb.r, rgb.g, rgb.b, a.v)]
          [] OTHER -> [tag |-> "Err"]

(***************************************************************************)
(* Deserialize                                                             *)
(***************************************************************************)
\* Visitor::visit_str of Language and of Platform
LanguageOf(s) ==
    CASE s = "en" -> [variant |-> "English"]
      [] s = "fr" -> [variant |-> "French"]
      [] s = "de" -> [variant |-> "German"]
      [] s = "es" -> [variant |-> "Spanish"]
      [] s = "ja" -> [variant |-> "Japanese"]
      [] s = "zh_cn" -> [variant |-> "ChineseChina"]
      [] OTHER -> [variant |-> "Unknown", value |-> s]
PlatformOf(s) ==
    CASE s = "mac" -> [variant |-> "Mac"]
      [] s = "windows" -> [variant |-> "Windows"]
      [] OTHER -> [variant |-> "Unknown", value |-> s]

\* The positions of the members of `ms` named `name`.
At(ms, name) == {i \in DOMAIN ms : ms[i].k = name}
\* The field of `fields` named `name`.
FieldNamed(fields, name) ==
    fields[CHOOSE i \in DOMAIN fields : fields[i].name = name]

RECURSIVE Decode(_, _), DecodeMembers(_, _), DecodeSeq(_, _)

\* A derived visit_map: every member named like a field is decoded as that
\* field and may occur once, the other members are skipped, and a field no
\* member names is None when it is an Option and an error otherwise.
DecodeMembers(fields, ms) ==
    LET names == {fields[i].name : i \in DOMAIN fields}
        R(f) == IF At(ms, f.name) = {}
                THEN IF f.type.k = "Option" THEN Ok(None) ELSE Bad
                ELSE Decode(f.type, ms[CHOOSE i \in At(ms, f.name) : TRUE].v)
    IN  IF \/ \E n \in names : Cardinality(At(ms, n)) > 1
           \/ \E i \in DOMAIN fields : ~R(fields[i]).ok
        THEN Bad
        ELSE Ok([n \in names |-> R(FieldNamed(fields, n)).v])

\* A derived visit_seq: the elements are the fields in the order of their
\* declaration, all of them and no more.
DecodeSeq(fields, a) ==
    IF \/ Len(a) # Len(fields)
       \/ \E i \in DOMAIN fields : ~Decode(fields[i].type, a[i]).ok
    THEN Bad
    ELSE Ok([n \in {fields[i].name : i \in DOMAIN fields} |->
                Decode(FieldNamed(fields, n).type,
                       a[CHOOSE i \in DOMAIN fields : fields[i].name = n]).v])

\* serde_json::from_str::<T> on the text of `j`.
Decode(T, j) ==
    CASE T.k = "String" -> IF j.t = "str" THEN Ok(j.s) ELSE Bad
      [] T.k = "u8" -> IF j.t = "num" /\ j.n \in 0..U8Max THEN Ok(j.n) ELSE Bad
      [] T.k = "i64" -> IF j.t = "num" THEN Ok(j.n) ELSE Bad
      [] T.k = "bool" -> IF j.t = "bool" THEN Ok(j.b) ELSE Bad
      [] T.k = "Value" -> Ok(j)
      [] T.k = "Target" ->
           IF j.t = "num" /\ j.n \in TargetCodes THEN Ok(TargetOf(j.n)) ELSE Bad
      [] T.k = "Alignment" ->
           IF j.t = "str" /\ j.s \in AlignmentNames THEN Ok(AlignmentOf(j.s))
           ELSE IF /\ j.t = "obj" /\ Len(j.o) = 1
                   /\ j.o[1].k \in AlignmentNames /\ j.o[1].v.t = "null"
                THEN Ok(AlignmentOf(j.o[1].k))
                ELSE Bad
      [] T.k = "DeviceType" ->
           IF j.t = "num" /\ j.n >= 0 THEN Ok(DeviceTypeOf(j.n)) ELSE Bad
      [] T.k = "Language" -> IF j.t = "str" THEN Ok(LanguageOf(j.s)) ELSE Bad
      [] T.k = "Platform" -> IF j.t = "str" THEN Ok(PlatformOf(j.s)) ELSE Bad
      [] T.k = "Vec" ->
           IF j.t = "arr" /\ \A i \in DOMAIN j.a : Decode(T.of, j.a[i]).ok
           THEN Ok([i \in DOMAIN j.a |-> Decode(T.of, j.a[i]).v])
           ELSE Bad
      [] T.k = "Option" ->
           IF j.t = "null" THEN Ok(None)
           ELSE IF Decode(T.of, j).ok THEN Ok(Some(Decode(T.of, j).v)) ELSE Bad
      [] T.k = "Tuple" ->
           IF /\ j.t = "arr" /\ Len(j.a) = Len(T.of)
              /\ \A i \in DOMAIN T.of : Decode(T.of[i], j.a[i]).ok
           THEN Ok([i \in DOMAIN T.of |-> Decode(T.of[i], j.a[i]).v])
           ELSE Bad
      [] OTHER ->
           CASE j.t = "obj" -> DecodeMembers(T.fields, j.o)
             [] j.t = "arr" -> DecodeSeq(T.fields, j.a)
             [] OTHER -> Bad

\* The variant of `variants` tagged `tag`, else `other` (None when the enum
\* has no #[serde(other)] variant).
VariantTagged(variants, other, tag) ==
    IF \E i \in DOMAIN variants : variants[i].tag = tag
    THEN Some(variants[CHOOSE i \in DOMAIN variants : variants[i].tag = tag])
    ELSE other

\* The members of `ms` but those named "event".
Untagged(ms) == SelectSeq(ms, LAMBDA mem : mem.k # "event")

\* DecodeContent falling back to Unknown when the content of the variant is
\* not decoded.
DecodeContentFallback(variant, content) ==
    LET r == IF variant.fields = <<>>
             THEN IF content.t = "obj" \/ content.a = <<>> THEN Ok(<<>>) ELSE Bad
             ELSE IF content.t = "obj"
                  THEN DecodeMembers(variant.fields, content.o)
                  ELSE DecodeSeq(variant.fields, content.a)
    IN  IF r.ok THEN Ok([variant |-> variant.name, fields |-> r.v])
        ELSE Ok([variant |-> "Unknown", fields |-> <<>>])

\* The content of a variant once its tag is known: a unit variant takes any
\* map and the empty sequence, a struct variant is decoded like a struct.
DecodeContent(variant, content) ==
    LET r == IF variant.fields = <<>>
             THEN IF content.t = "obj" \/ content.a = <<>> THEN Ok(<<>>) ELSE Bad
             ELSE IF content.t = "obj"
                  THEN DecodeMembers(variant.fields, content.o)
                  ELSE DecodeSeq(variant.fields, content.a)
    IN  IF r.ok THEN Ok([variant |-> variant.name, fields |-> r.v]) ELSE Bad

\* serde_json::from_str of an enum with #[serde(tag = "event")]: the tag is
\* the one member "event" of a map (or the first element of a sequence) and
\* must be a string; what is left is the content of the variant it names.
DecodeTagged(variants, other, j) ==
    CASE j.t = "obj" ->
           IF Cardinality(At(j.o, "event")) # 1 THEN Bad
           ELSE LET tag == j.o[CHOOSE i \in At(j.o, "event") : TRUE].v
                IN  IF tag.t # "str" THEN Bad
                    ELSE IF ~VariantTagged(variants, other, tag.s).some THEN Bad
                    ELSE DecodeContent(VariantTagged(variants, other, tag.s).v,
                                       JObj(Untagged(j.o)))
      [] j.t = "arr" ->
           IF j.a = <<>> THEN Bad
           ELSE IF j.a[1].t # "str" THEN Bad
           ELSE IF ~VariantTagged(variants, other, j.a[1].s).some THEN Bad
           ELSE DecodeContent(VariantTagged(variants, other, j.a[1].s).v,
                              JArr(Tail(j.a)))
      [] OTHER -> Bad

\* DecodeMessage as it would be were no variant marked #[serde(other)].
DecodeMessageNoOther(j) == DecodeTagged(MessageVariants, None, j)

\* serde_json::from_str::<Message<G, S, M>>
DecodeMessage(j) == DecodeTagged(MessageVariants, Some(UnknownVariant), j)

\* The wire forms of the variants of Alignment, Target and DeviceType.
AlignmentName(v) ==
    CASE v = "Top" -> "top" [] v = "Middle" -> "middle" [] OTHER -> "bottom"
TargetCode(v) == CASE v = "Both" -> 0 [] v = "Hardware" -> 1 [] OTHER -> 2
\* Serialize::serialize of DeviceType
DeviceTypeCode(v) ==
    CASE v.variant = "StreamDeck" -> 0
      [] v.variant = "StreamDeckMini" -> 1
      [] v.variant = "StreamDeckXl" -> 2
      [] v.variant = "StreamDeckMobile" -> 3
      [] v.variant = "CorsairGKeys" -> 4
      [] v.variant = "StreamDeckPedal" -> 5
      [] v.variant = "CorsairVoyager" -> 6
      [] v.variant = "StreamDeckPlus" -> 7
      [] OTHER -> v.value

RECURSIVE Encode(_, _), EncodeMembers(_, _)

\* A derived Serialize of a struct: its fields in the order of their
\* declaration, but those skipped by skip_serializing_if.
EncodeMembers(fields, v) ==
    LET all == [i \in DOMAIN fields |->
                  IF fields[i].skip /\ ~v[fields[i].name].some THEN None
                  ELSE Some(Member(fields[i].name,
                                   Encode(fields[i].type, v[fields[i].name])))]
        kept == SelectSeq(all, LAMBDA x : x.some)
    IN  [i \in DOMAIN kept |-> kept[i].v]

\* serde_json::to_string of a value of type T.
Encode(T, v) ==
    CASE T.k = "String" -> JStr(v)
      [] T.k \in {"u8", "i64"} -> JNum(v)
      [] T.k = "bool" -> JBool(v)
      [] T.k = "Value" -> v
      [] T.k = "Target" -> JNum(TargetCode(v))
      [] T.k = "Alignment" -> JStr(AlignmentName(v))
      [] T.k = "DeviceType" -> JNum(DeviceTypeCode(v))
      [] T.k = "Option" -> IF v.some THEN Encode(T.of, v.v) ELSE JNull
      [] T.k = "Tuple" -> JArr([i \in DOMAIN T.of |-> Encode(T.of[i], v[i])])
      [] OTHER -> JObj(EncodeMembers(T.fields, v))

\* EncodeTagged writing the variant's name in Rust as the tag, the rename
\* left out.
EncodeTaggedByName(variants, v) ==
    LET variant == variants[CHOOSE i \in DOMAIN variants :
                                variants[i].name = v.variant]
    IN  JObj(<<Member("event", JStr(variant.name))>>
             \o EncodeMembers(variant.fields, v.fields))

\* serde_json::to_string of an enum with #[serde(tag = "event")].
EncodeTagged(variants, v) ==
    LET variant == variants[CHOOSE i \in DOMAIN variants :
                                variants[i].name = v.variant]
    IN  JObj(<<Member("event", JStr(variant.tag))>>
             \o EncodeMembers(variant.fields, v.fields))

\* serde_json::to_string(&Message<G, S, M>)
EncodeMessage(v) == EncodeTagged(Append(MessageVariants, UnknownVariant), v)

StatePayload == TStruct(<<Field("state", TU8)>>)
TitlePayload ==
    TStruct(<<Field("title", TOption(TString)), Field("target", TTarget),
              SkipField("state", TOption(TU8))>>)
ImagePayload ==
    TStruct(<<Field("image", TOption(TString)), Field("target", TTarget),
              SkipField("state", TOption(TU8))>>)
ProfilePayload == TStruct(<<Field("profile", TString)>>)
UrlPayload == TStruct(<<Field("url", TString)>>)
LogMessagePayload == TStruct(<<Field("message", TString)>>)
SetFeedbackLayoutPayload == TStruct(<<Field("layout", TString)>>)
SetTriggerDescriptionPayload ==
    TStruct(<<Field("longTouch", TOption(TString)), Field("push", TOption(TString)),
              Field("rotate", TOption(TString)), Field("touch", TOption(TString))>>)

ContextFields == <<Field("context", TString)>>
ContextPayload(payload) ==
    <<Field("context", TString), Field("payload", payload)>>

\* enum MessageOut<G, S, M>
MessageOutVariants ==
    << Variant("SetTitle", "setTitle", ContextPayload(TitlePayload)),
       Variant("SetImage", "setImage", ContextPayload(ImagePayload)),
       Variant("ShowAlert", "showAlert", ContextFields),
       Variant("ShowOk", "showOk", ContextFields),
       Variant("GetSettings", "getSettings", ContextFields),
       Variant("SetSettings", "setSettings", ContextPayload(SType)),
       Variant("SetState", "setState", ContextPayload(StatePayload)),
       Variant("SendToPropertyInspector", "sendToPropertyInspector",
               <<Field("action", TString), Field("context", TString),
                 Field("payload", MType)>>),
       Variant("SwitchToProfile", "switchToProfile",
               <<Field("context", TString), Field("device", TString),
                 Field("payload", ProfilePayload)>>),
       Variant("OpenUrl", "openUrl", <<Field("payload", UrlPayload)>>),
       Variant("GetGlobalSettings", "getGlobalSettings", ContextFields),
       Variant("SetGlobalSettings", "setGlobalSettings", ContextPayload(GType)),
       Variant("LogMessage", "logMessage", <<Field("payload", LogMessagePayload)>>),
       Variant("SetFeedback", "setFeedback", ContextPayload(TValue)),
       Variant("SetFeedbackLayout", "setFeedbackLayout",
               ContextPayload(SetFeedbackLayoutPayload)),
       Variant("SetTriggerDescription", "setTriggerDescription",
               ContextPayload(SetTriggerDescriptionPayload)) >>

\* serde_json::to_string(&MessageOut<G, S, M>)
EncodeMessageOut(v) == EncodeTagged(MessageOutVariants, v)

(***************************************************************************)
(* StreamDeckSocket as a Sink                                              *)
(***************************************************************************)
\* A value of the caller's type S, G or M whose Serialize returns an error.
Unserializable == [serialize |-> "Err"]
\* The variants of MessageOut that carry a value of the caller's types.
CallerTyped == {"SetSettings", "SetGlobalSettings", "SendToPropertyInspector"}

\* serde_json::to_string(&item): an error when a Serialize of the caller
\* returns one, else the text.
to_string(item) ==
    IF item.variant \in CallerTyped /\ item.fields.payload = Unserializable
    THEN Bad
    ELSE Ok(EncodeMessageOut(item))

\* start_send keeping the frame the transport was not ready for.
start_sendKeepsFrame(frames, item, answer) ==
    IF ~to_string(item).ok
    THEN [wire |-> frames, ret |-> [tag |-> "Err", kind |-> "BadMessage"]]
    ELSE CASE answer = "Ready" ->
                [wire |-> Append(frames, Text(to_string(item).v)),
                 ret |-> [tag |-> "Ready"]]
           [] answer = "NotReady" ->
                [wire |-> Append(frames, Text(to_string(item).v)),
                 ret |-> [tag |-> "NotReady", item |-> item]]
           [] OTHER ->
                [wire |-> frames, ret |-> [tag |-> "Err", kind |-> "WebSocketError"]]

\* start_send offering an empty text frame for an item that is not encoded,
\* and reporting the failure afterwards.
start_sendFailsLate(frames, item, answer) ==
    IF ~to_string(item).ok
    THEN [wire |-> IF answer = "Ready" THEN Append(frames, Text(JNull)) ELSE frames,
          ret |-> [tag |-> "Err", kind |-> "BadMessage"]]
    ELSE CASE answer = "Ready" ->
                [wire |-> Append(frames, Text(to_string(item).v)),
                 ret |-> [tag |-> "Ready"]]
           [] answer = "NotReady" ->
                [wire |-> frames, ret |-> [tag |-> "NotReady", item |-> item]]
           [] OTHER ->
                [wire |-> frames, ret |-> [tag |-> "Err", kind |-> "WebSocketError"]]

\* Sink::start_send: the item is encoded, which may fail, and offered to the
\* transport, which answers Ready (the frame is taken), NotReady or Err.
\* Gives the frames the transport holds afterwards and what start_send
\* returns.
start_send(frames, item, answer) ==
    IF ~to_string(item).ok
    THEN [wire |-> frames, ret |-> [tag |-> "Err", kind |-> "BadMessage"]]
    ELSE CASE answer = "Ready" ->
                [wire |-> Append(frames, Text(to_string(item).v)),
                 ret |-> [tag |-> "Ready"]]
           [] answer = "NotReady" ->
                [wire |-> frames, ret |-> [tag |-> "NotReady", item |-> item]]
           [] OTHER ->
                [wire |-> frames, ret |-> [tag |-> "Err", kind |-> "WebSocketError"]]

\* poll_complete taking an error of the transport for not ready.
poll_completeSwallows(answer) ==
    CASE answer = "Ready" -> [tag |-> "Ready"]
      [] OTHER -> [tag |-> "NotReady"]

\* Sink::poll_complete: the transport's answer, its error as WebSocketError.
poll_complete(answer) ==
    CASE answer = "Ready" -> [tag |-> "Ready"]
      [] answer = "NotReady" -> [tag |-> "NotReady"]
      [] OTHER -> [tag |-> "Err", kind |-> "WebSocketError"]

(***************************************************************************)
(* The establishment and the socket it yields, as a state machine          *)
(***************************************************************************)
\* The addresses, event names and uuids the caller connects with.
Ports == {80, 8000}
Urls ==
    { [scheme |-> "ws", host |-> [kind |-> "Ipv4", name |-> "10.0.0.1"],
       port |-> Some(9000)],
      [scheme |-> "wss", host |-> [kind |-> "Domain", name |-> "localhost"],
       port |-> Some(8000)],
      [scheme |-> "http", host |-> [kind |-> "Domain", name |-> "localhost"],
       port |-> None] }
\* What the caller passes as the address: a port or a Url.
PortInput(p) == [kind |-> "port", port |-> p]
UrlInput(u) == [kind |-> "url", url |-> u]
AddressInputs == {PortInput(p) : p \in Ports} \cup {UrlInput(u) : u \in Urls}
\* address.into()
Into(input) ==
    IF input.kind = "port" THEN AddressFromPort(input.port)
    ELSE AddressFromUrl(input.url)
Events == {"registerPlugin", "registerPropertyInspector"}
Uuids == {"abc-123", "def-456"}

\* The ways one transport operation can go.
Scripts == [left : 0..MaxPending, ok : BOOLEAN]
\* The ways the transport can go: the TCP connect, set_nodelay, the upgrade
\* handshake, and the sink's start_send and poll_complete for the
\* registration frame.
Nets == [tcp : Scripts, nodelay : BOOLEAN, hs : Scripts, ss : Scripts, pc : Scripts]

\* The messages the caller sends on the socket.
OutItems ==
    { [variant |-> "ShowAlert", fields |-> [context |-> "ctx1"]],
      [variant |-> "SetState",
       fields |-> [context |-> "ctx1", payload |-> [state |-> 1]]],
      [variant |-> "SetTitle",
       fields |-> [context |-> "ctx2",
                   payload |-> [title |-> Some("hi"), target |-> "Both",
                                state |-> None]]],
      [variant |-> "SetSettings",
       fields |-> [context |-> "ctx1", payload |-> Unserializable]] }

NoIo == [op |-> "none", answer |-> "none"]
NoResult == [tag |-> "None"]

\* No function has been called by itself.
NoCall ==
    /\ callArg = [tag |-> "None"]
    /\ callRet = [tag |-> "None"]

\* No frame has been asked of the socket's stream.
StreamIdle ==
    /\ inbox = <<>>
    /\ taken = <<>>
    /\ pollRet = NoResult
    /\ polled = <<>>
    /\ probe = NoResult

\* The state StreamDeckSocket::connect(a, e, u) leaves, over the transport n.
Connected(a, e, u, n) ==
    /\ args = [address |-> a, event |-> e, uuid |-> u]
    /\ state = connect(Into(a), e, u).state
    /\ ops = connect(Into(a), e, u).ops
    /\ stages = <<connect(Into(a), e, u).state.v.tag>>
    /\ net = n
    /\ result = NoResult
    /\ sock = None
    /\ wire = <<>>
    /\ lastIo = NoIo
    /\ sent = <<>>
    /\ sendRet = NoResult
    /\ sinkIo = NoIo
    /\ panicked = FALSE
    /\ dropped = FALSE

Init ==
    /\ \E a \in AddressInputs, e \in Events, u \in Uuids, n \in Nets :
           Connected(a, e, u, n)
    /\ StreamIdle
    /\ NoCall

\* Connect::poll
Poll ==
    /\ ~panicked
    /\ ~dropped
    /\ LET m == PollLoop([state |-> state, net |-> net, ops |-> ops,
                          wire |-> wire, stages |-> stages, lastIo |-> NoIo,
                          ret |-> Continue])
       IN  /\ state' = m.state
           /\ net' = m.net
           /\ ops' = m.ops
           /\ wire' = m.wire
           /\ stages' = m.stages
           /\ lastIo' = m.lastIo
           /\ result' = m.ret
           /\ panicked' = (m.ret = Panic)
           /\ sock' = IF m.ret.tag = "Ready" THEN Some(m.ret.socket) ELSE sock
    /\ UNCHANGED <<args, sent, sendRet, sinkIo, dropped>>
    /\ UNCHANGED streamVars
    /\ UNCHANGED callVars

\* Sink::start_send on the socket Connect yielded.
SocketSend ==
    /\ sock.some
    /\ Len(sent) < MaxSends
    /\ \E item \in OutItems, answer \in {"Ready", "NotReady", "Err"} :
         LET r == start_send(wire, item, answer)
         IN  /\ wire' = r.wire
             /\ sendRet' = r.ret
             /\ sinkIo' = [op |-> "start_send", item |-> item,
                           answer |-> IF to_string(item).ok THEN answer ELSE "none"]
             /\ sent' = IF r.ret.tag = "Ready" THEN Append(sent, item) ELSE sent
    /\ UNCHANGED <<args, state, result, sock, net, ops, stages, lastIo, panicked,
                   dropped>>
    /\ UNCHANGED streamVars
    /\ UNCHANGED callVars

Next == Poll \/ SocketSend

Spec == Init /\ [][Next]_vars

\* Connect::poll as a task polls it: until it has returned Ready or an error.
PollPending ==
    /\ result.tag \in {"None", "NotReady"}
    /\ Poll

\* PollPending can be taken: ENABLED <<PollPending>>_vars, as a predicate on
\* the state (a poll of a pending Connect always changes result or net).
CanPoll == result.tag \in {"None", "NotReady"} /\ ~panicked /\ ~dropped

\* Weak fairness of PollPending, WF_vars(PollPending), written out with
\* CanPoll for the ENABLED it equals: the task that owns a pending Connect
\* polls it again whenever the transport has notified it.
PollFairness == []<>(~CanPoll) \/ []<><<PollPending>>_vars

\* The establishment under a task that keeps polling a pending Connect.
LiveSpec == Init /\ [][Next]_vars /\ PollFairness

(***************************************************************************)
(* Properties of the establishment                                         *)
(***************************************************************************)
IsPrefix(p, q) == Len(p) <= Len(q) /\ \A i \in DOMAIN p : p[i] = q[i]
Last(q) == q[Len(q)]
\* The names of the members of a frame's object, in order.
Keys(frame) == [i \in DOMAIN frame.body.o |-> frame.body.o[i].k]
\* The frame has the shape of a registration frame.
IsRegistration(frame) == frame.kind = "Text" /\ Keys(frame) = <<"event", "uuid">>
\* The Url the caller asked for.
AskedUrl == Into(args.address).url

\* C1: of the frames handed to the transport, the first and only the first
\* is a registration frame, and a socket is yielded only once that frame has
\* been handed over, so every message sent on the socket comes after it.
C1_RegistrationFirstAndOnce ==
    /\ wire # <<>> => IsRegistration(wire[1])
    /\ \A i \in DOMAIN wire : i > 1 => ~IsRegistration(wire[i])
    /\ sock.some => wire # <<>>
    /\ ~sock.some => Len(wire) <= 1 /\ sent = <<>>
    /\ Len(wire) <= 1 + Len(sent)

\* C1 witness: a registration and two messages after it are on the wire.
C1_Witness == sock.some /\ Len(wire) = 3 /\ Len(sent) = 2

\* C2: the registration frame is a text frame whose object has the two
\* members event and uuid, with the event name and the uuid the caller passed
\* to connect, which every state of Connect before it holds unchanged.
C2_RegistrationCarriesArgs ==
    /\ wire # <<>> =>
         /\ wire[1].kind = "Text"
         /\ wire[1].body.t = "obj"
         /\ Keys(wire[1]) = <<"event", "uuid">>
         /\ wire[1].body.o[1].v = JStr(args.event)
         /\ wire[1].body.o[2].v = JStr(args.uuid)
    /\ state.some /\ state.v.tag \in {"Connecting", "Negotiating"} =>
         state.v.event = args.event /\ state.v.uuid = args.uuid
    /\ state.some /\ state.v.tag = "Registering" /\ state.v.future.item.some =>
         state.v.future.item.v = Text(RegistrationJson(args.event, args.uuid))

\* C2 witness: a registration frame is on the wire after Connect was pending
\* in the Negotiating state.
C2_Witness ==
    /\ wire # <<>>
    /\ args.event = "registerPropertyInspector"
    /\ args.uuid = "def-456"
    /\ result.tag = "NotReady"

\* The stages of an establishment, in their order.
StageOrder == <<"Connecting", "Negotiating", "Registering", "Ready">>

\* C3: the stages entered are Connecting, Negotiating, Registering, Ready in
\* this order, none skipped and none entered twice; the state Connect holds
\* is the stage entered last, and a socket exists exactly when Ready was.
C3_StagesInOrder ==
    /\ IsPrefix(stages, StageOrder) \/ stages = <<"UnsupportedScheme">>
    /\ state.some => state.v.tag = Last(stages)
    /\ sock.some <=> Last(stages) = "Ready"
    /\ result.tag = "Ready" => stages = StageOrder

\* C3 witness: all four stages were entered, the last poll leaving Connect
\* pending in between.
C3_Witness == stages = StageOrder /\ sock.some

\* The kind of the error the transport's behaviour leads to ("none" when it
\* leads to none).
ExpectedKind ==
    CASE AskedUrl.scheme # "ws" -> "UnsupportedScheme"
      [] ~net.tcp.ok -> "ConnectionError"
      [] ~net.hs.ok -> "ProtocolError"
      [] ~net.ss.ok \/ ~net.pc.ok -> "SendError"
      [] OTHER -> "none"

\* C4: an establishment that fails fails with the kind of the stage whose
\* transport operation failed, holds no state afterwards and yields no
\* socket; one that yields a socket met no failure.
C4_ErrorKindOfStage ==
    /\ result.tag = "Err" =>
         /\ result.kind = ExpectedKind
         /\ sock = None
         /\ state = None
         /\ result.kind = "ConnectionError" => Last(stages) = "Connecting"
         /\ result.kind = "ProtocolError" => Last(stages) = "Negotiating"
         /\ result.kind = "SendError" => Last(stages) = "Registering"
    /\ result.tag = "Ready" => ExpectedKind = "none"
    /\ sock.some => ExpectedKind = "none"

\* C4 witness: the registration frame was taken but its flush failed.
C4_Witness ==
    /\ result.tag = "Err"
    /\ result.kind = "SendError"
    /\ result.cause = "poll_complete"

\* The transport operations of one establishment, in their order.
OpOrder == <<"tcp_connect", "set_nodelay", "client_async", "send">>

\* C5: the connect, the upgrade and the registration send are each started
\* at most once (the operations started are a prefix of OpOrder), and once a
\* poll has returned an error no step starts an operation, polls one or
\* hands a frame to the transport.
C5_NoRetry ==
    /\ [](IsPrefix(ops, OpOrder))
    /\ [][result.tag \in {"Err", "Panic"} => UNCHANGED <<ops, net, state>>]_vars
    /\ [][result.tag = "Err" => UNCHANGED wire]_vars

\* C5 witness: Connect was polled again after the upgrade had failed.
C5_Witness ==
    /\ panicked
    /\ ~net.hs.ok
    /\ ops = <<"tcp_connect", "set_nodelay", "client_async">>

\* The socket over the transport the caller asked for, upgraded.
ExpectedSocket ==
    [inner |-> [target |-> with_default_port(AskedUrl).v,
                nodelay |-> net.nodelay, upgraded |-> TRUE]]

\* C6: when the address is valid and the connect, the upgrade and the
\* registration send all complete successfully, a Connect that is polled
\* while pending eventually returns Ready with the socket over that
\* transport.
C6_EventuallyReady ==
    (AskedUrl.scheme = "ws" /\ net.tcp.ok /\ net.hs.ok /\ net.ss.ok /\ net.pc.ok)
        => <>(result.tag = "Ready" /\ result.socket = ExpectedSocket
              /\ sock = Some(ExpectedSocket))

\* C6 witness: Ready was returned after every operation had been pending.
C6_Witness ==
    /\ result.tag = "Ready"
    /\ sock = Some(ExpectedSocket)
    /\ args.address = PortInput(80)

\* C7: for an address whose scheme is not "ws" no transport operation is
\* ever started, and the poll fails with UnsupportedScheme carrying that
\* scheme; no other address fails so.
C7_UnsupportedScheme ==
    /\ AskedUrl.scheme # "ws" =>
         /\ ops = <<>>
         /\ wire = <<>>
         /\ lastIo = NoIo
         /\ sock = None
         /\ result \in {NoResult, Err("UnsupportedScheme", AskedUrl.scheme), Panic}
    /\ result.tag = "Err" /\ result.kind = "UnsupportedScheme" =>
         AskedUrl.scheme # "ws"

\* C7 witness: connecting to a wss Url has failed.
C7_Witness == result = Err("UnsupportedScheme", "wss")

(***************************************************************************)
(* The address resolver: every port                                        *)
(***************************************************************************)
\* The largest u16.
U16Max == 65535

\* A transport on which every operation completes at its first poll.
ReadyNet ==
    [tcp |-> [left |-> 0, ok |-> TRUE], nodelay |-> TRUE,
     hs |-> [left |-> 0, ok |-> TRUE], ss |-> [left |-> 0, ok |-> TRUE],
     pc |-> [left |-> 0, ok |-> TRUE]]

InitAddr ==
    /\ \E p \in 0..U16Max :
           Connected(PortInput(p), "registerPlugin", "abc-123", ReadyNet)
    /\ StreamIdle
    /\ NoCall

NextAddr == Poll

\* Connecting to each port in turn.
SpecAddr == InitAddr /\ [][NextAddr]_vars

Localhost == [kind |-> "Domain", name |-> "localhost"]

\* C8: an address given as the port P is the Url with scheme "ws" and host
\* localhost that stores P (nothing when P is the default port of "ws"), and
\* the TCP connect is started to localhost and port P exactly; the socket
\* Connect yields runs over that connection.
C8_PortResolves ==
    args.address.kind = "port" =>
        LET P == args.address.port
            url == Into(args.address).url
        IN  /\ url.scheme = "ws"
            /\ url.host = Localhost
            /\ url.port = IF P = default_port("ws").v THEN None ELSE Some(P)
            /\ ops # <<>> /\ ops[1] = "tcp_connect"
            /\ state.some /\ state.v.tag = "Connecting" =>
                 state.v.future.target = [host |-> Localhost, port |-> P]
            /\ sock.some =>
                 sock.v.inner.target = [host |-> Localhost, port |-> P]

\* C8 witness: a socket over a connection to port 80, which the Url does not
\* store.
C8_Witness ==
    /\ args.address = PortInput(80)
    /\ ~AskedUrl.port.some
    /\ sock.some
    /\ sock.v.inner.target.port = 80

(***************************************************************************)
(* StreamDeckSocket as a Stream                                            *)
(***************************************************************************)
\* What the transport's stream answers to one poll.
TReady(frame) == [answer |-> "Ready", frame |-> frame]
TEnd == [answer |-> "End"]
TNotReady == [answer |-> "NotReady"]
TErr == [answer |-> "Err"]

\* Poll<Option<Message>, StreamDeckSocketError>
ItemReady(item) == [tag |-> "Ready", item |-> item]
BadMessage == [tag |-> "Err", kind |-> "BadMessage"]
WebSocketError == [tag |-> "Err", kind |-> "WebSocketError"]

\* DecodeFrame ending the stream at a frame that is not decoded.
DecodeFrameEndsOnBad(frame) ==
    IF DecodeMessage(frame.body).ok
    THEN ItemReady(Some(DecodeMessage(frame.body).v))
    ELSE ItemReady(None)

\* What Stream::poll makes of a text frame.
DecodeFrame(frame) ==
    IF DecodeMessage(frame.body).ok
    THEN ItemReady(Some(DecodeMessage(frame.body).v))
    ELSE BadMessage

\* StreamLoop returning NotReady at a frame that is no text frame.
StreamLoopStopsAtOther(answers, consumed) ==
    IF answers = <<>>
    THEN [inbox |-> answers, taken |-> consumed, ret |-> NotReady]
    ELSE LET a == Head(answers)
             out(r) == [inbox |-> Tail(answers), taken |-> Append(consumed, a),
                        ret |-> r]
         IN  CASE a.answer = "Ready" /\ a.frame.kind = "Text" ->
                    out(DecodeFrame(a.frame))
               [] a.answer = "Ready" -> out(NotReady)
               [] a.answer = "End" -> out(ItemReady(None))
               [] a.answer = "NotReady" -> out(NotReady)
               [] OTHER -> out(WebSocketError)

RECURSIVE StreamLoopSkipsBad(_, _)
\* StreamLoop passing over a text frame that is not decoded.
StreamLoopSkipsBad(answers, consumed) ==
    IF answers = <<>>
    THEN [inbox |-> answers, taken |-> consumed, ret |-> NotReady]
    ELSE LET a == Head(answers)
             out(r) == [inbox |-> Tail(answers), taken |-> Append(consumed, a),
                        ret |-> r]
         IN  CASE a.answer = "Ready" /\ a.frame.kind = "Text"
                    /\ DecodeMessage(a.frame.body).ok ->
                    out(DecodeFrame(a.frame))
               [] a.answer = "Ready" ->
                    StreamLoopSkipsBad(Tail(answers), Append(consumed, a))
               [] a.answer = "End" -> out(ItemReady(None))
               [] a.answer = "NotReady" -> out(NotReady)
               [] OTHER -> out(WebSocketError)

RECURSIVE StreamLoop(_, _)
\* The loop of Stream::poll over the answers `answers` of the transport, of
\* which `consumed` were consumed before: a text frame is decoded, any other
\* frame is passed over. A transport that has no answer left is not ready.
StreamLoop(answers, consumed) ==
    IF answers = <<>>
    THEN [inbox |-> answers, taken |-> consumed, ret |-> NotReady]
    ELSE LET a == Head(answers)
             out(r) == [inbox |-> Tail(answers), taken |-> Append(consumed, a),
                        ret |-> r]
         IN  CASE a.answer = "Ready" /\ a.frame.kind = "Text" ->
                    out(DecodeFrame(a.frame))
               [] a.answer = "Ready" ->
                    StreamLoop(Tail(answers), Append(consumed, a))
               [] a.answer = "End" -> out(ItemReady(None))
               [] a.answer = "NotReady" -> out(NotReady)
               [] OTHER -> out(WebSocketError)

\* Stream::poll on the socket Connect yielded.
StreamPoll ==
    /\ sock.some
    /\ inbox # <<>>
    /\ LET r == StreamLoop(inbox, taken)
       IN  /\ inbox' = r.inbox
           /\ taken' = r.taken
           /\ pollRet' = r.ret
           /\ polled' = Append(polled, r.ret)
    /\ UNCHANGED <<connectVars, probe>>
    /\ UNCHANGED callVars

(***************************************************************************)
(* Decoding one frame: the frames tried                                    *)
(***************************************************************************)
\* The most members an object with an unrecognized tag has beside the tag.
MaxMembers == 2

RECURSIVE Sample(_, _, _)
\* A value of type T, told apart from the value of any other field by the
\* name `name` and the position `i` of the field it is made for.
Sample(T, name, i) ==
    CASE T.k = "String" -> name
      [] T.k = "u8" -> i
      [] T.k = "i64" -> 0 - i
      [] T.k = "bool" -> (i % 2 = 1)
      [] T.k = "Value" -> JStr(name)
      [] T.k = "Target" -> "Hardware"
      [] T.k = "Alignment" -> "Middle"
      [] T.k = "DeviceType" -> DeviceTypeOf(i + 6)
      [] T.k = "Option" -> Some(Sample(T.of, name, i))
      [] T.k = "Tuple" -> [j \in DOMAIN T.of |-> Sample(T.of[j], name, i + j)]
      [] OTHER ->
           IF T.fields = <<>> THEN <<>>
           ELSE [n \in {T.fields[j].name : j \in DOMAIN T.fields} |->
                    Sample(FieldNamed(T.fields, n).type, n,
                           CHOOSE j \in DOMAIN T.fields : T.fields[j].name = n)]

\* The reference value of a variant and the frame that is its encoding, with
\* every field present.
RefValue(variant) ==
    [variant |-> variant.name, fields |-> Sample(TStruct(variant.fields), "", 0)]
RefJson(variant) == EncodeMessage(RefValue(variant))

\* A JSON text that no value of type T is decoded from.
RECURSIVE Wrong(_)
Wrong(T) ==
    CASE T.k = "String" -> JNum(7)
      [] T.k = "u8" -> JNum(U8Max + 1)
      [] T.k = "DeviceType" -> JNum(0 - 1)
      [] T.k = "Alignment" -> JStr("center")
      [] T.k = "Option" -> Wrong(T.of)
      [] T.k = "Tuple" -> JArr(<<JNum(1)>>)
      [] OTHER -> JStr("x")

\* The value of the one member of the object `j` named `name`.
GetMember(j, name) == j.o[CHOOSE i \in At(j.o, name) : TRUE].v
\* The object `j` with the value of its members named `name` replaced.
SetMember(j, name, v) ==
    JObj([i \in DOMAIN j.o |-> IF j.o[i].k = name THEN Member(name, v) ELSE j.o[i]])
\* The object `j` without its members named `name`.
DropMember(j, name) == JObj(SelectSeq(j.o, LAMBDA mem : mem.k # name))

\* The object `j` changed at its member `name`: the member left out, set to
\* null, set to a text its type T does not take, or written twice.
Mutate(j, name, T, mut) ==
    CASE mut = "drop" -> DropMember(j, name)
      [] mut = "null" -> SetMember(j, name, JNull)
      [] mut = "wrong" -> SetMember(j, name, Wrong(T))
      [] OTHER -> JObj(Append(j.o, Member(name, GetMember(j, name))))

\* The same change at the path `path`, one or two names deep.
MutateAt(j, path, T, mut) ==
    IF Len(path) = 1 THEN Mutate(j, path[1], T, mut)
    ELSE SetMember(j, path[1], Mutate(GetMember(j, path[1]), path[2], T, mut))

\* The paths of the fields of a variant, and of the fields of those of its
\* fields that are structs.
Paths(variant) ==
    { <<variant.fields[i].name>> : i \in DOMAIN variant.fields } \cup
    UNION { { <<variant.fields[i].name, variant.fields[i].type.fields[j].name>> :
                j \in DOMAIN variant.fields[i].type.fields } :
            i \in {i \in DOMAIN variant.fields : variant.fields[i].type.k = "Struct"} }

\* The type of the field at a path.
TypeAt(variant, path) ==
    IF Len(path) = 1 THEN FieldNamed(variant.fields, path[1]).type
    ELSE FieldNamed(FieldNamed(variant.fields, path[1]).type.fields, path[2]).type

\* The reference value with None at a path.
NoneAt(value, path) ==
    IF Len(path) = 1 THEN [value EXCEPT !.fields[path[1]] = None]
    ELSE [value EXCEPT !.fields[path[1]][path[2]] = None]

Mutations == {"drop", "null", "wrong", "twice"}

\* A frame with a recognized tag, made from the reference frame of the
\* variant by one change at one field, with what the change was.
FieldProbe(variant, path, mut) ==
    [json |-> MutateAt(RefJson(variant), path, TypeAt(variant, path), mut),
     probe |-> [class |-> "known", variant |-> variant.name, mut |-> mut,
                optional |-> TypeAt(variant, path).k = "Option",
                value |-> IF mut \in {"drop", "null"}
                              /\ TypeAt(variant, path).k = "Option"
                          THEN NoneAt(RefValue(variant), path)
                          ELSE RefValue(variant)]]

\* The reference frame as it is, with a member no field takes before and
\* after the others, with its tag written last, and with its tag twice.
FrameProbes(variant) ==
    LET ref == RefJson(variant)
        about(mut) == [class |-> "known", variant |-> variant.name, mut |-> mut,
                       optional |-> FALSE, value |-> RefValue(variant)]
    IN  { [json |-> ref, probe |-> about("none")],
          [json |-> JObj(<<Member("isInMultiAction", JBool(FALSE))>> \o ref.o
                         \o <<Member("extra", JArr(<<JNull>>))>>),
           probe |-> about("extra")],
          [json |-> JObj(Tail(ref.o) \o <<Head(ref.o)>>),
           probe |-> about("taglast")],
          [json |-> JObj(Append(ref.o, Head(ref.o))),
           probe |-> about("twice")] }

KnownProbes ==
    UNION { FrameProbes(MessageVariants[i]) \cup
            { FieldProbe(MessageVariants[i], path, mut) :
                path \in Paths(MessageVariants[i]), mut \in Mutations } :
            i \in DOMAIN MessageVariants }

\* The tags of the catalogue, and some strings that are none of them.
RecognizedTags == {MessageVariants[i].tag : i \in DOMAIN MessageVariants}
UnknownTags == {"", "unknown", "KeyDown", "keydown", "dialPress", "event"}

\* Members an object may carry beside its tag.
OtherMembers ==
    { Member("action", JStr("a")), Member("context", JNull),
      Member("payload", JNum(5)), Member("payload", JObj(<<Member("settings", JNull)>>)),
      Member("device", JArr(<<JBool(TRUE)>>)), Member("uuid", JStr("event")) }
OtherSeqs == UNION { [1..n -> OtherMembers] : n \in 0..MaxMembers }

\* An object whose tag is `tag`, written after `before` of the other members.
UnknownProbe(tag, others, before) ==
    [json |-> JObj([i \in 1..before |-> others[i]]
                   \o <<Member("event", JStr(tag))>>
                   \o [i \in 1..(Len(others) - before) |-> others[i + before]]),
     probe |-> [class |-> "unknown", tag |-> tag]]

UnknownProbes ==
    UNION { { UnknownProbe(tag, others, before) :
                tag \in UnknownTags, before \in 0..Len(others) } :
            others \in OtherSeqs }

\* A text that is no JSON text at all.
JInvalid == [t |-> "invalid"]

\* Frames without a tag: texts that are no JSON object, and objects that have
\* no member "event" or have one that is no string.
UntaggedTexts ==
    { JInvalid, JNull, JBool(TRUE), JNum(5), JStr("keyDown"), JArr(<<>>),
      JArr(<<JNum(1)>>), JArr(<<JStr("nothing")>>),
      JArr(<<JStr("systemDidWakeUp")>>),
      JArr(<<JStr("deviceDidDisconnect"), JStr("device")>>),
      JArr(<<JObj(<<Member("event", JStr("systemDidWakeUp"))>>)>>) }
UntaggedObjects ==
    { JObj(others) : others \in {o \in OtherSeqs : Len(o) <= 1} } \cup
    { JObj(<<Member("Event", JStr("systemDidWakeUp"))>>),
      JObj(<<Member("payload", JObj(<<Member("event", JStr("systemDidWakeUp"))>>))>>) } \cup
    { JObj(<<Member("event", v)>>) :
        v \in {JNull, JBool(TRUE), JNum(0), JArr(<<JStr("systemDidWakeUp")>>),
               JObj(<<Member("event", JStr("systemDidWakeUp"))>>)} }
UntaggedProbes ==
    { [json |-> j, probe |-> [class |-> "untagged", object |-> FALSE]] :
        j \in UntaggedTexts } \cup
    { [json |-> j, probe |-> [class |-> "untagged", object |-> TRUE]] :
        j \in UntaggedObjects }

\* The state a successful establishment leaves: the socket is yielded.
Established ==
    LET a == PortInput(8000)
        c == connect(Into(a), "registerPlugin", "abc-123")
        m == PollLoop([state |-> c.state, net |-> ReadyNet, ops |-> c.ops,
                       wire |-> <<>>, stages |-> <<c.state.v.tag>>,
                       lastIo |-> NoIo, ret |-> Continue])
    IN  /\ args = [address |-> a, event |-> "registerPlugin", uuid |-> "abc-123"]
        /\ state = m.state
        /\ net = m.net
        /\ ops = m.ops
        /\ wire = m.wire
        /\ stages = m.stages
        /\ lastIo = m.lastIo
        /\ result = m.ret
        /\ sock = Some(m.ret.socket)
        /\ sent = <<>>
        /\ sendRet = NoResult
        /\ sinkIo = NoIo
        /\ panicked = FALSE
        /\ dropped = FALSE

InitDecode ==
    /\ Established
    /\ \E p \in KnownProbes \cup UnknownProbes \cup UntaggedProbes :
          /\ inbox = <<TReady(Text(p.json))>>
          /\ probe = p.probe
    /\ taken = <<>>
    /\ pollRet = NoResult
    /\ polled = <<>>
    /\ NoCall

NextDecode == StreamPoll

\* One text frame arriving on an established socket.
SpecDecode == InitDecode /\ [][NextDecode]_vars

(***************************************************************************)
(* Properties of decoding                                                  *)
(***************************************************************************)
\* The message Unknown.
UnknownMessage == [variant |-> "Unknown", fields |-> <<>>]

RequiredBroken(p) == p.mut \in {"drop", "null", "wrong"} /\ ~p.optional
\* The change left every field that is present valid and written once.
WellFormed(p) ==
    \/ p.mut \in {"none", "extra", "taglast"}
    \/ p.mut \in {"drop", "null"} /\ p.optional
\* The poll returned the message Unknown.
ReturnedUnknown ==
    pollRet.tag = "Ready" /\ pollRet.item.some /\ pollRet.item.v.variant = "Unknown"

\* C10 as stated: a frame with a recognized tag is decoded as the variant of
\* that tag, field-equal to the reference, whenever its required fields are
\* present and valid, is BadMessage when a required field is missing or
\* malformed, and is never Unknown.
C10_KnownTagAsStated ==
    probe.class = "known" /\ taken # <<>> =>
        /\ ~RequiredBroken(probe) => pollRet = ItemReady(Some(probe.value))
        /\ RequiredBroken(probe) => pollRet = BadMessage
        /\ ~ReturnedUnknown

\* C10, amended: a frame with a recognized tag is decoded as the variant of
\* that tag, field-equal to the reference, when its required fields are
\* present and valid, every optional field that is present is valid or null
\* and neither the tag nor a field is written twice; it is BadMessage when a
\* required field is missing or malformed; it is never Unknown.
C10_KnownTagDecodes ==
    probe.class = "known" /\ taken # <<>> =>
        /\ WellFormed(probe) => pollRet = ItemReady(Some(probe.value))
        /\ RequiredBroken(probe) => pollRet = BadMessage
        /\ ~ReturnedUnknown

\* C10 witness: a titleParametersDidChange frame without a required field
\* was BadMessage.
C10_Witness ==
    /\ probe.class = "known"
    /\ probe.variant = "TitleParametersDidChange"
    /\ probe.mut = "drop"
    /\ ~probe.optional
    /\ pollRet = BadMessage

\* C11 as stated: a text frame that is no JSON object, or is an object
\* without a string member "event", is BadMessage: it is not decoded as any
\* message and it is not passed over.
C11_TagMandatory ==
    probe.class = "untagged" /\ taken # <<>> => pollRet = BadMessage

(***************************************************************************)
(* The stream of an established socket over a run of transport answers     *)
(***************************************************************************)
\* The most answers the transport's stream gives in one run.
MaxFrames == 3

\* The frames of the web socket that are no text frames.
Binary == [kind |-> "Binary", body |-> JNull]
Ping == [kind |-> "Ping", body |-> JNull]
Pong == [kind |-> "Pong", body |-> JNull]
Close == [kind |-> "Close", body |-> JNull]
OtherFrames == {Binary, Ping, Pong, Close}

\* Text frames: two messages of the catalogue, one with a tag outside it and
\* one that is no JSON.
TextFrames ==
    { Text(JObj(<<Member("event", JStr("systemDidWakeUp"))>>)),
      Text(JObj(<<Member("event", JStr("deviceDidDisconnect")),
                  Member("device", JStr("d1"))>>)),
      Text(JObj(<<Member("event", JStr("nothing"))>>)),
      Text(JInvalid) }

\* What the transport's stream answers to one poll before it ends.
Answers == {TReady(f) : f \in TextFrames \cup OtherFrames} \cup {TNotReady, TErr}

\* The runs of at most n answers; the end of the stream is the last answer
\* of a run, when the run has it.
Runs(n) ==
    LET open == UNION { [1..k -> Answers] : k \in 0..n }
    IN  open \cup { Append(r, TEnd) : r \in {q \in open : Len(q) < n} }

InitStream ==
    /\ Established
    /\ inbox \in Runs(MaxFrames)
    /\ taken = <<>>
    /\ pollRet = NoResult
    /\ polled = <<>>
    /\ probe = NoResult
    /\ NoCall

NextStream == StreamPoll

\* An established socket polled as a stream until the transport's answers
\* are used up.
SpecStream == InitStream /\ [][NextStream]_vars

(***************************************************************************)
(* Properties of the stream                                                *)
(***************************************************************************)
\* The answer is a frame that is no text frame.
IsOther(a) == a.answer = "Ready" /\ a.frame.kind # "Text"
\* The answer is a text frame.
IsText(a) == a.answer = "Ready" /\ a.frame.kind = "Text"
\* The poll returned an item or an error.
Yielded(r) == r # NotReady
\* The poll returned a message or BadMessage.
FromText(r) == r = BadMessage \/ (r.tag = "Ready" /\ r.item.some)

\* C12: a frame that is no text frame gives no item and no error: the polls
\* that returned an item or an error are as many as the answers consumed
\* that are a text frame, the end or an error; and no poll returns at such a
\* frame while the transport has a further answer.
C12_NonTextSkipped ==
    /\ Len(SelectSeq(polled, Yielded)) =
           Len(SelectSeq(taken, LAMBDA a : ~IsOther(a) /\ a # TNotReady))
    /\ taken # <<>> /\ IsOther(Last(taken)) => inbox = <<>> /\ pollRet = NotReady

\* C12 witness: one poll passed over a ping and a binary frame and returned
\* the message of the text frame behind them.
C12_Witness ==
    /\ Len(polled) = 1
    /\ Len(taken) = 3
    /\ taken[1] = TReady(Ping)
    /\ taken[2] = TReady(Binary)
    /\ pollRet.tag = "Ready"
    /\ pollRet.item.some

\* C13: the polls that returned a message or BadMessage are, in order, what
\* each text frame consumed decodes to by itself.
C13_PerFrame ==
    LET texts == SelectSeq(taken, IsText)
    IN  SelectSeq(polled, FromText) =
            [i \in DOMAIN texts |-> DecodeFrame(texts[i].frame)]

\* C13 witness: a poll returned BadMessage and the next one the message of
\* the following frame.
C13_Witness ==
    /\ Len(polled) = 2
    /\ polled[1] = BadMessage
    /\ polled[2].tag = "Ready"
    /\ polled[2].item.some
    /\ polled[2].item.v.variant = "DeviceDidDisconnect"

\* C14: a poll returns the end of the stream exactly when the answer it
\* consumed last is the end of the transport's stream.
C14_EndsWithTransport ==
    /\ polled # <<>> =>
          (pollRet = ItemReady(None) <=> (taken # <<>> /\ Last(taken) = TEnd))
    /\ \A i \in DOMAIN polled : polled[i] = ItemReady(None) => i = Len(polled)

\* C14 witness: after BadMessage, a frame passed over and a poll that was
\* not ready, the transport ended and so did the stream.
C14_Witness ==
    /\ pollRet = ItemReady(None)
    /\ Len(taken) = 3
    /\ \E i \in 1..2 : taken[i] = TReady(Text(JInvalid)) \/ IsOther(taken[i])
    /\ Last(taken) = TEnd

(***************************************************************************)
(* An established socket used as a stream and as a sink                    *)
(***************************************************************************)
\* Sink::poll_complete on the socket Connect yielded.
SocketFlush ==
    /\ sock.some
    /\ \E answer \in {"Ready", "NotReady", "Err"} :
          /\ sendRet' = poll_complete(answer)
          /\ sinkIo' = [op |-> "poll_complete", answer |-> answer]
    /\ UNCHANGED <<args, state, result, sock, net, ops, wire, stages, lastIo,
                   sent, panicked, dropped>>
    /\ UNCHANGED streamVars
    /\ UNCHANGED callVars

\* The runs of at most two answers of the transport's stream, among a text
\* frame that is decoded, one that is not, a ping, NotReady, an error and the
\* end.
ShortAnswers ==
    { TReady(Text(JObj(<<Member("event", JStr("systemDidWakeUp"))>>))),
      TReady(Text(JInvalid)), TReady(Ping), TNotReady, TErr, TEnd }
ShortRuns == {r \in Runs(2) : \A i \in DOMAIN r : r[i] \in ShortAnswers}

InitSocket ==
    /\ Established
    /\ inbox \in ShortRuns
    /\ taken = <<>>
    /\ pollRet = NoResult
    /\ polled = <<>>
    /\ probe = NoResult
    /\ NoCall

NextSocket == StreamPoll \/ SocketSend \/ SocketFlush

\* An established socket on which the caller polls, sends and flushes in
\* any order.
SpecSocket == InitSocket /\ [][NextSocket]_vars

(***************************************************************************)
(* Properties of the sink and of the errors of the socket                  *)
(***************************************************************************)
\* What start_send and poll_complete return for an error.
SinkBadMessage == [tag |-> "Err", kind |-> "BadMessage"]
SinkWebSocketError == [tag |-> "Err", kind |-> "WebSocketError"]
\* The frames of the messages `items`, in order.
FramesOf(items) == [i \in DOMAIN items |-> Text(EncodeMessageOut(items[i]))]
\* The registration frame the establishment sent.
SentAtRegistration == <<Text(RegistrationJson(args.event, args.uuid))>>

\* C15: the frames the transport holds after the registration frame are the
\* encodings of the accepted messages in the order of their acceptance; a
\* start_send that returns Ready has handed over one frame, that of its
\* item; one that returns NotReady has handed over none and returns its
\* item.
C15_OneFramePerMessage ==
    /\ [](wire = SentAtRegistration \o FramesOf(sent))
    /\ [](sinkIo.op = "start_send" /\ sendRet.tag = "NotReady"
            => sendRet.item = sinkIo.item)
    /\ [][SocketSend =>
            /\ sendRet'.tag = "Ready" =>
                  wire' = Append(wire, Text(EncodeMessageOut(sinkIo'.item)))
            /\ sendRet'.tag # "Ready" => wire' = wire]_vars

\* C15 witness: after one accepted message the transport was not ready for a
\* second one, which start_send returned.
C15_Witness ==
    /\ Len(sent) = 1
    /\ Len(wire) = 2
    /\ sinkIo.op = "start_send"
    /\ sendRet.tag = "NotReady"
    /\ sendRet.item.variant = "SetTitle"

\* C16: start_send returns BadMessage exactly for an item that is not
\* encoded, the transport is then not asked and holds what it held, and the
\* messages accepted are those accepted before.
C16_AllOrNothing ==
    /\ [](sinkIo.op = "start_send" =>
            (sendRet = SinkBadMessage <=> ~to_string(sinkIo.item).ok))
    /\ [](wire = SentAtRegistration \o FramesOf(sent))
    /\ [][SocketSend /\ sendRet' = SinkBadMessage =>
            UNCHANGED <<wire, sent, sock, inbox, taken>>]_vars

\* C16 witness: after one accepted message, a start_send returned BadMessage
\* and the transport holds the two frames it held.
C16_Witness ==
    /\ sendRet = SinkBadMessage
    /\ Len(sent) = 1
    /\ Len(wire) = 2

\* A failure of the transport has been surfaced: by a poll so far, or by the
\* last operation on the sink.
FailureSurfaced ==
    \/ \E i \in DOMAIN polled : polled[i] = WebSocketError
    \/ sendRet = SinkWebSocketError

\* C17 as stated: once a failure of the transport has been surfaced, no poll
\* delivers a message and no start_send accepts one.
C17_UnusableAfterFailure ==
    [][FailureSurfaced =>
         /\ ~(polled' # polled /\ pollRet'.tag = "Ready" /\ pollRet'.item.some)
         /\ sent' = sent]_vars

\* C18: a poll returns WebSocketError exactly when the transport's stream
\* answered an error and BadMessage exactly when the text frame it read is
\* not decoded; start_send and poll_complete return WebSocketError exactly
\* when the transport's sink answered an error, and BadMessage exactly when
\* the item is not encoded.
C18_ErrorKinds ==
    /\ polled # <<>> =>
          /\ pollRet = WebSocketError <=> (taken # <<>> /\ Last(taken) = TErr)
          /\ pollRet = BadMessage <=>
                (/\ taken # <<>>
                 /\ IsText(Last(taken))
                 /\ ~DecodeMessage(Last(taken).frame.body).ok)
    /\ Len(SelectSeq(polled, LAMBDA r : r = WebSocketError)) =
           Len(SelectSeq(taken, LAMBDA a : a = TErr))
    /\ sinkIo.op # "none" =>
          /\ sendRet = SinkWebSocketError <=> sinkIo.answer = "Err"
          /\ sendRet = SinkBadMessage <=>
                (sinkIo.op = "start_send" /\ ~to_string(sinkIo.item).ok)

\* C18 witness: poll_complete returned WebSocketError on a socket whose last
\* poll returned BadMessage.
C18_Witness ==
    /\ sinkIo.op = "poll_complete"
    /\ sendRet = SinkWebSocketError
    /\ pollRet = BadMessage

(***************************************************************************)
(* MessageOut decoded and encoded again                                    *)
(***************************************************************************)
\* serde_json::from_str::<MessageOut<G, S, M>>
DecodeMessageOut(j) == DecodeTagged(MessageOutVariants, None, j)

RECURSIVE ValuesOf(_, _, _), ValuesOfFields(_, _)
\* Values of type T: of an Option both None and Some, of a struct every
\* combination of those of its fields, of any other type one value.
ValuesOf(T, name, i) ==
    CASE T.k = "Option" -> {None} \cup {Some(v) : v \in ValuesOf(T.of, name, i)}
      [] T.k = "Struct" -> ValuesOfFields(T.fields, 1)
      [] OTHER -> {Sample(T, name, i)}
ValuesOfFields(fields, k) ==
    IF k > Len(fields) THEN {<<>>}
    ELSE { (fields[k].name :> v) @@ r :
             v \in ValuesOf(fields[k].type, fields[k].name, k),
             r \in ValuesOfFields(fields, k + 1) }

\* The outbound messages of one variant that are tried: every optional
\* field set and unset.
OutValues(variant) ==
    { [variant |-> variant.name, fields |-> f] :
        f \in ValuesOfFields(variant.fields, 1) }

RECURSIVE Reversed(_), WithoutNulls(_), Canon(_)
\* The JSON text `j` with the members of every object in the reverse order.
Reversed(j) ==
    IF j.t # "obj" THEN j
    ELSE JObj([i \in DOMAIN j.o |->
                 Member(j.o[Len(j.o) + 1 - i].k, Reversed(j.o[Len(j.o) + 1 - i].v))])
\* The JSON text `j` without the members of its objects that are null.
WithoutNulls(j) ==
    IF j.t # "obj" THEN j
    ELSE LET kept == SelectSeq(j.o, LAMBDA mem : mem.v.t # "null")
         IN  JObj([i \in DOMAIN kept |-> Member(kept[i].k, WithoutNulls(kept[i].v))])
\* The JSON text `j` with every object as the set of its members.
Canon(j) ==
    CASE j.t = "obj" ->
           [t |-> "obj", o |-> {[k |-> j.o[i].k, v |-> Canon(j.o[i].v)] : i \in DOMAIN j.o}]
      [] j.t = "arr" -> JArr([i \in DOMAIN j.a |-> Canon(j.a[i])])
      [] OTHER -> j

\* The wire forms tried: the encoding of each message, the same with the
\* members in another order, and the same with the members that are null
\* left out.
WireFormsOf(variant) ==
    { [fn |-> "round_trip", form |-> "encoded", x |-> EncodeMessageOut(v)] :
        v \in OutValues(variant) } \cup
    { [fn |-> "round_trip", form |-> "reordered", x |-> Reversed(EncodeMessageOut(v))] :
        v \in OutValues(variant) } \cup
    { [fn |-> "round_trip", form |-> "absent", x |-> WithoutNulls(EncodeMessageOut(v))] :
        v \in {w \in OutValues(variant) :
                 WithoutNulls(EncodeMessageOut(w)) # EncodeMessageOut(w)} }
WireForms == UNION { WireFormsOf(MessageOutVariants[i]) : i \in DOMAIN MessageOutVariants }

InitRoundTrip ==
    /\ Established
    /\ StreamIdle
    /\ callArg \in WireForms
    /\ callRet = NoResult

\* from_str::<MessageOut> on a wire form, then to_string on what it gave.
RoundTrip ==
    /\ callArg.fn = "round_trip"
    /\ callRet = NoResult
    /\ LET d == DecodeMessageOut(callArg.x)
       IN  callRet' = IF d.ok
                      THEN [tag |-> "Ok", decoded |-> d.v,
                            encoded |-> EncodeMessageOut(d.v)]
                      ELSE [tag |-> "Err"]
    /\ UNCHANGED <<connectVars, streamVars, callArg>>

NextRoundTrip == RoundTrip

SpecRoundTrip == InitRoundTrip /\ [][NextRoundTrip]_vars

\* The JSON texts are the same up to the order of the members of objects.
SameJson(a, b) == Canon(a) = Canon(b)

\* C19 as stated: every wire form of an outbound message, those that leave
\* out optional fields included, is decoded, and encoding what it decodes to
\* gives the wire form again up to the order of the members.
C19_RoundTripAsStated ==
    callRet # NoResult =>
        callRet.tag = "Ok" /\ SameJson(callRet.encoded, callArg.x)

\* C19, amended: the encoding of an outbound message, its members in any
\* order, is decoded, and encoding what it decodes to gives it again up to
\* the order of the members; in it an unset state is left out and an unset
\* title, image, longTouch, push, rotate or touch is null.
C19_RoundTrip ==
    callRet # NoResult /\ callArg.form \in {"encoded", "reordered"} =>
        callRet.tag = "Ok" /\ SameJson(callRet.encoded, callArg.x)

\* C19 witness: a setTitle text whose title is null and that has no state,
\* its members reversed, was decoded and encoded again.
C19_Witness ==
    /\ callRet # NoResult
    /\ callArg.form = "reordered"
    /\ callRet.tag = "Ok"
    /\ callRet.decoded.variant = "SetTitle"
    /\ callRet.decoded.fields.payload.title = None
    /\ callRet.decoded.fields.payload.state = None
    /\ callRet.encoded # callArg.x

(***************************************************************************)
(* Color: the round trip                                                   *)
(***************************************************************************)
\* The colors tried: one component any byte, the others among a few.
Bytes == 0..U8Max
FewBytes == {0, 255}
Colors ==
    {Rgb(r, g, b) : r \in Bytes, g \in FewBytes, b \in FewBytes} \cup
    {Rgb(r, g, b) : r \in FewBytes, g \in Bytes, b \in FewBytes} \cup
    {Rgb(r, g, b) : r \in FewBytes, g \in FewBytes, b \in Bytes} \cup
    {Rgba(r, g, b, a) : r \in Bytes, g \in FewBytes, b \in FewBytes, a \in FewBytes} \cup
    {Rgba(r, g, b, a) : r \in FewBytes, g \in Bytes, b \in FewBytes, a \in FewBytes} \cup
    {Rgba(r, g, b, a) : r \in FewBytes, g \in FewBytes, b \in Bytes, a \in FewBytes} \cup
    {Rgba(r, g, b, a) : r \in FewBytes, g \in FewBytes, b \in FewBytes, a \in Bytes}

InitColor ==
    /\ Established
    /\ StreamIdle
    /\ \E c \in Colors : callArg = [fn |-> "color", color |-> c]
    /\ callRet = NoResult

\* A color serialized, the str deserialized, and the outcome serialized
\* again.
ColorRoundTrip ==
    /\ callArg.fn = "color"
    /\ callRet = NoResult
    /\ LET str == SerializeColor(callArg.color)
           d == visit_str(str)
       IN  callRet' = [tag |-> "Done", str |-> str, decoded |-> d,
                       again |-> IF d.tag = "Ok" THEN Some(SerializeColor(d.v))
                                 ELSE None]
    /\ UNCHANGED <<connectVars, streamVars, callArg>>

NextColor == ColorRoundTrip

SpecColor == InitColor /\ [][NextColor]_vars

\* C20: a color is serialized as a str of 7 characters when it is Rgb and of
\* 9 when it is Rgba, that str is deserialized as the same color, variant
\* and bytes, and serializing what it is deserialized as gives the str again.
C20_ColorRoundTrip ==
    callRet # NoResult =>
        /\ Len(callRet.str) = IF callArg.color.variant = "Rgb" THEN 7 ELSE 9
        /\ callRet.decoded = [tag |-> "Ok", v |-> callArg.color]
        /\ callRet.again = Some(callRet.str)

\* C20 witness: the color Rgba with the bytes 0, 255, 0, 9 went through as
\* the str #00ff0009.
C20_Witness ==
    /\ callRet # NoResult
    /\ callArg.color = Rgba(0, 255, 0, 9)
    /\ callRet.str = <<"#", "0", "0", "f", "f", "0", "0", "0", "9">>
    /\ callRet.decoded.tag = "Ok"

(***************************************************************************)
(* Color: the strs that are deserialized                                   *)
(***************************************************************************)
\* The characters the strs tried are made of: the mark, signs, digits of
\* both cases, a letter and a blank that are no digits, and the character
\* of two bytes.
Alphabet == {"#", "+", "-", "0", "9", "f", "A", "g", " ", "e-acute"}

\* Two strs that are colors, and every str of their characters up to the
\* first n, n from nothing to all of them.
Rgb7 == <<"#", "0", "9", "f", "A", "0", "0">>
Rgba9 == <<"#", "0", "9", "f", "A", "0", "0", "f", "f">>
Prefixes(str) == {SubSeq(str, 1, n) : n \in 0..Len(str)}
\* `str` with the character at i replaced by c.
Replace(str, i, c) == [str EXCEPT ![i] = c]
\* The strs tried: the prefixes, each with one more character, and each of
\* those with any one or any two neighbouring characters replaced.
Stems ==
    LET short == Prefixes(Rgb7) \cup Prefixes(Rgba9)
    IN  short \cup {p \o <<c>> : p \in short, c \in Alphabet}
ColorStrs ==
    Stems
    \cup UNION {{Replace(p, i, c) : i \in DOMAIN p, c \in Alphabet} : p \in Stems}
    \cup UNION {{Replace(Replace(p, i, c), i + 1, d) :
                    i \in 1..(Len(p) - 1),
                    c \in {"+", "-", "e-acute"}, d \in {"+", "f", "e-acute"}} :
                 p \in Prefixes(Rgb7) \cup Prefixes(Rgba9)}

InitColorDecode ==
    /\ Established
    /\ StreamIdle
    /\ \E str \in ColorStrs : callArg = [fn |-> "visit_str", value |-> str]
    /\ callRet = NoResult

\* Deserialize for Color on a str: what visit_str returns, or its panic.
ColorDecode ==
    /\ callArg.fn = "visit_str"
    /\ callRet = NoResult
    /\ callRet' = visit_str(callArg.value)
    /\ UNCHANGED <<connectVars, streamVars, callArg>>

NextColorDecode == ColorDecode

SpecColorDecode == InitColorDecode /\ [][NextColorDecode]_vars

\* The str given to visit_str is the mark followed by n hexadecimal digits.
IsMarkAndDigits(str, n) ==
    /\ Len(str) = n + 1
    /\ str[1] = "#"
    /\ \A i \in 2..Len(str) : IsHex(str[i])

\* C21: a str whose length, as str::len gives it, is neither 7 nor 9, and a
\* str of length 7 or 9 whose first character is not the mark, is answered
\* with an error of the deserializer: not with a color and not with a panic.
C21_RejectsWithoutCrash ==
    callRet # NoResult =>
        LET value == callArg.value
        IN  (ByteLen(value) \notin {7, 9} \/ value[1] # "#")
                => callRet.tag = "Err"

\* C22: a str is deserialized as a color only when it is the mark followed
\* by 6 hexadecimal digits, then as Rgb, or by 8, then as Rgba; every other
\* str is answered with an error of the deserializer.
C22_OnlyHexDigits ==
    callRet # NoResult =>
        LET value == callArg.value
        IN  /\ callRet.tag = "Ok" =>
                \/ IsMarkAndDigits(value, 6) /\ callRet.v.variant = "Rgb"
                \/ IsMarkAndDigits(value, 8) /\ callRet.v.variant = "Rgba"
            /\ ~(IsMarkAndDigits(value, 6) \/ IsMarkAndDigits(value, 8))
                => callRet.tag = "Err"

(***************************************************************************)
(* Cancellation of a Connect                                               *)
(***************************************************************************)
\* Dropping a Connect whose pending registration frame is written out by
\* the drop.
DropConnectFlushes(m) ==
    IF m.state.some /\ m.state.v.tag = "Registering" /\ m.state.v.future.item.some
    THEN [m EXCEPT !.state = None, !.wire = Append(@, m.state.v.future.item.v)]
    ELSE [m EXCEPT !.state = None]

\* Dropping a Connect: it has no Drop of its own, so its fields are dropped,
\* the ConnectState with the transport's future, stream or sink in it.
\* Nothing is polled and nothing is handed to the transport.
DropConnect(m) == [m EXCEPT !.state = None]

\* The owner of the Connect drops it; it cannot be polled afterwards.
Drop ==
    /\ ~dropped
    /\ ~panicked
    /\ LET m == DropConnect([state |-> state, wire |-> wire])
       IN  /\ state' = m.state
           /\ wire' = m.wire
    /\ dropped' = TRUE
    /\ UNCHANGED <<args, result, sock, net, ops, stages, lastIo, sent, sendRet,
                   sinkIo, panicked>>
    /\ UNCHANGED streamVars
    /\ UNCHANGED callVars

NextCancel == Poll \/ SocketSend \/ Drop

SpecCancel == Init /\ [][NextCancel]_vars

\* C23: when a Connect that has not returned Ready is dropped, the drop and
\* every step after it leave the frames on the wire, the transport
\* operations started and the transport itself as they were, and no socket
\* is yielded.
C23_CancelDiscards ==
    [][(dropped' /\ result.tag # "Ready") =>
          /\ wire' = wire
          /\ ops' = ops
          /\ net' = net
          /\ result' = result
          /\ sock' = None
          /\ state' = None]_vars

\* C23 witness: the Connect was dropped while Registering, the registration
\* frame accepted by the sink and not yet flushed.
C23_Witness ==
    /\ dropped
    /\ result = NotReady
    /\ stages = <<"Connecting", "Negotiating", "Registering">>
    /\ lastIo = [op |-> "poll_complete", answer |-> "NotReady"]
    /\ Len(wire) = 1
    /\ sock = None

(***************************************************************************)
(* Suspension: the establishment and the stream of the socket it yields    *)
(***************************************************************************)
\* The runs of at most three answers of the transport's stream, among a
\* text frame, a ping and NotReady.
SuspendRuns ==
    LET answers == {TReady(Text(JObj(<<Member("event", JStr("systemDidWakeUp"))>>))),
                    TReady(Ping), TNotReady}
    IN  UNION {[1..k -> answers] : k \in 0..3}

InitSuspend ==
    /\ \E n \in Nets : Connected(PortInput(8000), "registerPlugin", "abc-123", n)
    /\ inbox \in SuspendRuns
    /\ taken = <<>>
    /\ pollRet = NoResult
    /\ polled = <<>>
    /\ probe = NoResult
    /\ NoCall

NextSuspend == Poll \/ StreamPoll

\* A Connect polled until it yields the socket, and the socket then polled
\* as a stream.
SpecSuspend == InitSuspend /\ [][NextSuspend]_vars

\* The transport operations Connect::poll polls in a stage.
OpsOfStage(stage) ==
    CASE stage = "Connecting" -> {"tcp_connect"}
      [] stage = "Negotiating" -> {"client_async"}
      [] stage = "Registering" -> {"start_send", "poll_complete"}
      [] OTHER -> {}

\* C24: when Connect::poll returned NotReady, the transport operation it
\* polled last in that call answered NotReady and belongs to the stage
\* entered last, so a stage completed in the call was followed by a poll of
\* the next one; when Stream::poll returned NotReady, the transport's answer
\* it consumed last is NotReady, unless the transport had no answer left;
\* and every poll but one that used up the transport's answers ended on an
\* answer that is not a frame of another kind: behind such a frame it asked
\* the transport again.
C24_SuspendsOnTransport ==
    /\ result = NotReady =>
          /\ lastIo.answer = "NotReady"
          /\ lastIo.op \in OpsOfStage(Last(stages))
    /\ pollRet = NotReady /\ inbox # <<>> =>
          /\ taken # <<>>
          /\ Last(taken) = TNotReady
    /\ Len(polled) = Len(SelectSeq(taken, LAMBDA a : ~IsOther(a)))
                       + IF taken # <<>> /\ IsOther(Last(taken)) THEN 1 ELSE 0

\* C24 witness: the socket was yielded, and its first poll as a stream
\* passed over a ping and returned NotReady as the transport did, with an
\* answer of the transport still to come.
C24_Witness ==
    /\ sock.some
    /\ Len(polled) = 1
    /\ pollRet = NotReady
    /\ taken = <<TReady(Ping), TNotReady>>
    /\ inbox # <<>>

(***************************************************************************)
(* The wire trace of a connect and a send                                  *)
(***************************************************************************)
\* The caller connected with the port 8000, the event name registerPlugin
\* and the uuid abc-123.
AskedExample ==
    args = [address |-> PortInput(8000), event |-> "registerPlugin",
            uuid |-> "abc-123"]
ShowAlertCtx1 == [variant |-> "ShowAlert", fields |-> [context |-> "ctx1"]]

\* C25: after that connect the wire holds the one frame
\* {"event":"registerPlugin","uuid":"abc-123"} once the socket is yielded,
\* and after ShowAlert for ctx1 was then sent it holds exactly two, the
\* second {"event":"showAlert","context":"ctx1"} with the members event and
\* context and no other.
C25_WireTrace ==
    LET first == Text(JObj(<<Member("event", JStr("registerPlugin")),
                             Member("uuid", JStr("abc-123"))>>))
        second == Text(JObj(<<Member("event", JStr("showAlert")),
                              Member("context", JStr("ctx1"))>>))
    IN  AskedExample /\ sock.some =>
            /\ sent = <<>> => wire = <<first>>
            /\ sent = <<ShowAlertCtx1>> =>
                  /\ wire = <<first, second>>
                  /\ Keys(wire[2]) = <<"event", "context">>

\* C25 witness: after that connect, ShowAlert for ctx1 was sent and the
\* sink accepted it.
C25_Witness ==
    /\ AskedExample
    /\ sock.some
    /\ sent = <<ShowAlertCtx1>>
    /\ sendRet.tag = "Ready"
    /\ Len(wire) = 2

(***************************************************************************)
(* set_nodelay                                                             *)
(***************************************************************************)
\* The sequence has the element.
Has(q, e) == \E i \in DOMAIN q : q[i] = e

\* C26: set_nodelay is called exactly when the TCP connect has succeeded,
\* and whether it succeeds or fails the Negotiating stage is entered in the
\* same poll; a poll ends in the Connecting stage only because the TCP
\* connect was not ready or failed, and only the TCP connect is ever the
\* cause of a ConnectionError.
C26_NodelayIgnored ==
    /\ Has(ops, "set_nodelay") <=> Has(stages, "Negotiating")
    /\ Has(ops, "set_nodelay") =>
          \E i \in DOMAIN ops : ops[i] = "set_nodelay" /\ i < Len(ops)
                                  /\ ops[i + 1] = "client_async"
    /\ (result.tag \in {"NotReady", "Err"} /\ Last(stages) = "Connecting") =>
          /\ lastIo.op = "tcp_connect"
          /\ lastIo.answer \in {"NotReady", "Err"}
    /\ (result.tag = "Err" /\ result.kind = "ConnectionError") =>
          /\ result.cause = "tcp_connect"
          /\ ~Has(ops, "set_nodelay")

\* C26 witness: set_nodelay failed on the connection, and the establishment
\* went on to yield the socket over that connection.
C26_Witness ==
    /\ ~net.nodelay
    /\ Has(ops, "set_nodelay")
    /\ stages = StageOrder
    /\ sock.some
    /\ ~sock.v.inner.nodelay

(***************************************************************************)
(* The state of a Connect between polls                                    *)
(***************************************************************************)
\* C27: the state of a Connect is None exactly when its last poll returned
\* Ready or an error or panicked; when the last poll returned NotReady the
\* state holds the stage entered last; and a poll of a Connect whose state
\* is None panics, starts and polls no transport operation and leaves the
\* wire and the socket yielded as they were.
C27_StateBetweenPolls ==
    /\ [](state = None <=> result.tag \in {"Ready", "Err", "Panic"})
    /\ [](result = NotReady => state.some /\ state.v.tag = Last(stages))
    /\ [][(state = None /\ result' # result) =>
             /\ result' = Panic
             /\ panicked'
             /\ state' = None
             /\ lastIo' = NoIo
             /\ ops' = ops
             /\ net' = net
             /\ wire' = wire
             /\ sock' = sock]_vars

\* C27 witness: a Connect that had returned an error in the Negotiating
\* stage was polled again and panicked.
C27_Witness ==
    /\ panicked
    /\ result = Panic
    /\ state = None
    /\ stages = <<"Connecting", "Negotiating">>
    /\ ops = <<"tcp_connect", "set_nodelay", "client_async">>

(***************************************************************************)
(* registration.rs: RegistrationInfo and RegistrationParams::from_args     *)
(***************************************************************************)
RegistrationInfoDevice ==
    TStruct(<<Field("id", TString), Field("name", TOption(TString)),
              Field("size", DeviceSize), Field("type", TOption(TDeviceType))>>)
RegistrationInfoApplication ==
    TStruct(<<Field("language", TLanguage), Field("platform", TPlatform),
              Field("version", TString)>>)
RegistrationInfoPlugin ==
    TStruct(<<Field("version", TString), Field("uuid", TString)>>)
\* The fields of UserColors, each an Option<Color>.
UserColors ==
    <<"buttonPressedBackgroundColor", "buttonPressedBorderColor",
      "buttonPressedTextColor", "disabledColor", "highlightColor",
      "mouseDownColor">>
\* RegistrationInfo; its field colors is taken as the JSON value it is and
\* decoded by DecodeUserColors.
RegistrationInfo ==
    TStruct(<<Field("application", RegistrationInfoApplication),
              Field("plugin", RegistrationInfoPlugin),
              Field("devicePixelRatio", TU8),
              Field("devices", TVec(RegistrationInfoDevice)),
              Field("colors", TValue)>>)

\* Deserialize of Option<Color>: null is None, a string goes to visit_str.
DecodeOptionColor(j) ==
    IF j.t = "null" THEN Ok(None)
    ELSE IF j.t # "str" THEN Bad
    ELSE LET c == visit_str(j.s)
         IN  IF c.tag = "Ok" THEN Ok(Some(c.v)) ELSE Bad

\* The JSON value the field at i of UserColors is decoded from: the member of
\* that name of an object (null for a member that is missing), the element
\* at i of an array.
UserColorJson(j, i) ==
    IF j.t = "arr" THEN j.a[i]
    ELSE IF At(j.o, UserColors[i]) = {} THEN JNull
    ELSE j.o[CHOOSE k \in At(j.o, UserColors[i]) : TRUE].v
\* UserColors of its fields decoded, Bad when one of them is.
CollectUserColors(fields) ==
    IF \E i \in DOMAIN fields : ~fields[i].ok THEN Bad
    ELSE Ok([n \in {UserColors[i] : i \in DOMAIN UserColors} |->
               fields[CHOOSE i \in DOMAIN UserColors : UserColors[i] = n].v])
\* The derived Deserialize of UserColors, as DecodeMembers and DecodeSeq
\* are for the other structs.
DecodeUserColors(j) ==
    IF \/ j.t \notin {"obj", "arr"}
       \/ j.t = "arr" /\ Len(j.a) # Len(UserColors)
       \/ j.t = "obj" /\ \E i \in DOMAIN UserColors :
                              Cardinality(At(j.o, UserColors[i])) > 1
    THEN Bad
    ELSE CollectUserColors([i \in DOMAIN UserColors |->
                              DecodeOptionColor(UserColorJson(j, i))])

\* The arguments tried, each a string. "{info}" stands for the JSON text of
\* a registration info, "{}" for that of the empty object and "{" for a text
\* that is no JSON.
InfoJson ==
    JObj(<<Member("application",
                  JObj(<<Member("language", JStr("en")),
                         Member("platform", JStr("mac")),
                         Member("version", JStr("4.0.0"))>>)),
           Member("plugin",
                  JObj(<<Member("version", JStr("1.0")),
                         Member("uuid", JStr("abc-123"))>>)),
           Member("devicePixelRatio", JNum(2)),
           Member("devices",
                  JArr(<<JObj(<<Member("id", JStr("d1")),
                                Member("name", JStr("Deck")),
                                Member("size", JObj(<<Member("columns", JNum(5)),
                                                      Member("rows", JNum(3))>>)),
                                Member("type", JNum(0))>>)>>)),
           Member("colors",
                  JObj(<<Member("highlightColor",
                                JStr(<<"#", "0", "0", "9", "9", "f", "f">>))>>))>>)

\* The characters of an argument.
Chars(a) ==
    CASE a = "8000" -> <<"8", "0", "0", "0">>
      [] a = "65535" -> <<"6", "5", "5", "3", "5">>
      [] a = "65536" -> <<"6", "5", "5", "3", "6">>
      [] a = "+80" -> <<"+", "8", "0">>
      [] a = "" -> <<>>
      [] a = "x" -> <<"x">>
      [] a = "{" -> <<"{">>
      [] a = "{}" -> <<"{", "}">>
      [] a = "{info}" -> <<"{", "i", "n", "f", "o", "}">>
      [] a = "abc-123" -> <<"a", "b", "c", "-", "1", "2", "3">>
      [] a = "registerPlugin" ->
           <<"r", "e", "g", "i", "s", "t", "e", "r", "P", "l", "u", "g", "i", "n">>
      [] a = "-port" -> <<"-", "p", "o", "r", "t">>
      [] a = "-pluginUUID" -> <<"-", "p", "l", "u", "g", "i", "n", "U", "U", "I", "D">>
      [] a = "-registerEvent" ->
           <<"-", "r", "e", "g", "i", "s", "t", "e", "r", "E", "v", "e", "n", "t">>
      [] a = "-info" -> <<"-", "i", "n", "f", "o">>
      [] OTHER -> <<"p", "l", "u", "g", "i", "n">>   \* "plugin"
\* The JSON value an argument is the text of, JInvalid when it is none.
JsonOf(a) ==
    CASE a = "8000" -> JNum(8000)
      [] a = "65535" -> JNum(65535)
      [] a = "65536" -> JNum(65536)
      [] a = "{}" -> JObj(<<>>)
      [] a = "{info}" -> InfoJson
      [] OTHER -> JInvalid

DecDigits == <<"0", "1", "2", "3", "4", "5", "6", "7", "8", "9">>
IsDec(c) == \E i \in DOMAIN DecDigits : c = DecDigits[i]
DecValue(c) == (CHOOSE i \in DOMAIN DecDigits : c = DecDigits[i]) - 1

RECURSIVE Radix10(_, _)
\* The number the decimal digits `digits` continue `acc` to.
Radix10(digits, acc) ==
    IF digits = <<>> THEN acc
    ELSE Radix10(Tail(digits), acc * 10 + DecValue(Head(digits)))

\* u16::from_str: one leading "+" is passed over; then at least one digit,
\* only digits, and a value that fits a u16.
u16_from_str(src) ==
    LET digits == IF src # <<>> /\ Head(src) = "+" THEN Tail(src) ELSE src
    IN  IF digits = <<>> \/ \E i \in DOMAIN digits : ~IsDec(digits[i])
        THEN Bad
        ELSE IF Radix10(digits, 0) > U16Max THEN Bad
        ELSE Ok(Radix10(digits, 0))

\* serde_json::from_str::<RegistrationInfo> on an argument
\* The registration info `info` with the colors `colors` decoded for it.
WithColors(info, colors) ==
    IF colors.ok THEN Ok([info EXCEPT !.colors = colors.v]) ELSE Bad
\* A decoded registration info with its colors decoded in turn.
DecodeColorsOf(info) ==
    IF info.ok THEN WithColors(info.v, DecodeUserColors(info.v.colors)) ELSE Bad
info_from_str(a) ==
    IF JsonOf(a) = JInvalid THEN Bad
    ELSE DecodeColorsOf(Decode(RegistrationInfo, JsonOf(a)))

\* iter.next() on what is left of the arguments, and what is left after it.
IterNext(rest) == IF rest = <<>> THEN None ELSE Some(Head(rest))
IterRest(rest) == IF rest = <<>> THEN rest ELSE Tail(rest)

RECURSIVE ScanKeepsEarlier(_, _)
\* The loop of from_args with a flag that has no argument after it leaving
\* the parameter as it was.
ScanKeepsEarlier(rest, found) ==
    LET a == IterNext(rest)
        after == IterRest(rest)
        value == IterNext(after)
        left == IterRest(after)
    IN  IF ~a.some THEN found
        ELSE IF ~value.some /\ a.v \in {"-port", "-pluginUUID", "-registerEvent", "-info"}
        THEN found
        ELSE CASE a.v = "-port" ->
                    ScanKeepsEarlier(left,
                        [found EXCEPT !.port = Some(u16_from_str(Chars(value.v)))])
               [] a.v = "-pluginUUID" ->
                    ScanKeepsEarlier(left, [found EXCEPT !.uuid = value])
               [] a.v = "-registerEvent" ->
                    ScanKeepsEarlier(left, [found EXCEPT !.event = value])
               [] a.v = "-info" ->
                    ScanKeepsEarlier(left,
                        [found EXCEPT !.info = Some(info_from_str(value.v))])
               [] OTHER -> ScanKeepsEarlier(after, found)

RECURSIVE Scan(_, _)
\* The loop of from_args: `rest` is what the iterator has left, `found` the
\* variables port, uuid, event and info.
Scan(rest, found) ==
    LET a == IterNext(rest)
        after == IterRest(rest)
        value == IterNext(after)
        left == IterRest(after)
    IN  IF ~a.some THEN found
        ELSE CASE a.v = "-port" ->
                    Scan(left,
                         [found EXCEPT !.port = IF value.some
                                                THEN Some(u16_from_str(Chars(value.v)))
                                                ELSE None])
               [] a.v = "-pluginUUID" -> Scan(left, [found EXCEPT !.uuid = value])
               [] a.v = "-registerEvent" -> Scan(left, [found EXCEPT !.event = value])
               [] a.v = "-info" ->
                    Scan(left,
                         [found EXCEPT !.info = IF value.some
                                                THEN Some(info_from_str(value.v))
                                                ELSE None])
               [] OTHER -> Scan(after, found)

\* let mut port = None; and so on.
NothingFound == [port |-> None, uuid |-> None, event |-> None, info |-> None]

\* Result<RegistrationParams, RegistrationParamsError>
ParamsErr(kind) == [tag |-> "Err", kind |-> kind]
ParamsOk(found) ==
    [tag |-> "Ok", port |-> found.port.v.v, uuid |-> found.uuid.v,
     event |-> found.event.v, info |-> found.info.v.v]

\* What follows the loop of from_args, with the uuid looked at first.
ReportUuidFirst(found) ==
    CASE ~found.uuid.some -> ParamsErr("NoUuid")
      [] ~found.port.some -> ParamsErr("NoPort")
      [] ~found.port.v.ok -> ParamsErr("BadPort")
      [] ~found.event.some -> ParamsErr("NoEvent")
      [] ~found.info.some -> ParamsErr("NoInfo")
      [] ~found.info.v.ok -> ParamsErr("BadInfo")
      [] OTHER -> ParamsOk(found)

\* What follows the loop of from_args: the first ? that returns.
Report(found) ==
    CASE ~found.port.some -> ParamsErr("NoPort")
      [] ~found.port.v.ok -> ParamsErr("BadPort")
      [] ~found.uuid.some -> ParamsErr("NoUuid")
      [] ~found.event.some -> ParamsErr("NoEvent")
      [] ~found.info.some -> ParamsErr("NoInfo")
      [] ~found.info.v.ok -> ParamsErr("BadInfo")
      [] OTHER -> ParamsOk(found)

\* RegistrationParams::from_args
from_args(arguments) == Report(Scan(arguments, NothingFound))

\* The longest of the lists of arguments that are tried whatever they are.
MaxArgs == 4

\* The names of the parameters on the command line.
FlagNames == {"-port", "-pluginUUID", "-registerEvent", "-info"}

\* The lists of arguments tried: the program's name followed by the four
\* parameters in every order, each left out, given well or given badly; and
\* every list of at most MaxArgs arguments among a few.
Groups ==
    << {<<>>, <<"-port", "8000">>, <<"-port", "65536">>, <<"-port", "+80">>},
       {<<>>, <<"-pluginUUID", "abc-123">>},
       {<<>>, <<"-registerEvent", "registerPlugin">>},
       {<<>>, <<"-info", "{info}">>, <<"-info", "{">>, <<"-info", "{}">>} >>
Orders == {o \in [1..4 -> 1..4] : \A i, j \in 1..4 : o[i] = o[j] => i = j}
OrderedLists ==
    {<<"plugin">> \o g[o[1]] \o g[o[2]] \o g[o[3]] \o g[o[4]] :
        g \in {h \in [1..4 -> UNION {Groups[i] : i \in 1..4}] :
                 \A i \in 1..4 : h[i] \in Groups[i]},
        o \in Orders}
ShortLists ==
    UNION {[1..n -> {"-port", "-pluginUUID", "-info", "8000", "{info}", "x"}] :
             n \in 0..MaxArgs}
ArgLists == OrderedLists \cup ShortLists

InitArgs ==
    /\ Established
    /\ StreamIdle
    /\ \E a \in ArgLists : callArg = [fn |-> "from_args", args |-> a]
    /\ callRet = NoResult

\* RegistrationParams::from_args on a list of arguments; what the loop left
\* in its variables is kept beside what is returned.
FromArgs ==
    /\ callArg.fn = "from_args"
    /\ callRet = NoResult
    /\ callRet' = [tag |-> "Done", found |-> Scan(callArg.args, NothingFound),
                   ret |-> from_args(callArg.args)]
    /\ UNCHANGED <<connectVars, streamVars, callArg>>

NextArgs == FromArgs

SpecArgs == InitArgs /\ [][NextArgs]_vars

RECURSIVE ActsAsFlag(_, _)
\* The argument at i is the name of a parameter and is not the value of the
\* one before it.
ActsAsFlag(arguments, i) ==
    /\ arguments[i] \in FlagNames
    /\ (i = 1 \/ ~ActsAsFlag(arguments, i - 1))
\* The argument that ends up as the value of the parameter named `flag`:
\* the one after its last occurrence, none when it is not there.
ValueOf(arguments, flag) ==
    LET at == {i \in DOMAIN arguments : arguments[i] = flag /\ ActsAsFlag(arguments, i)}
        last == CHOOSE i \in at : \A k \in at : k <= i
    IN  IF at = {} THEN None
        ELSE IF last = Len(arguments) THEN None
        ELSE Some(arguments[last + 1])

\* C28: from_args returns Ok only when the port, the uuid, the event and
\* the info each ended up with a value, the port is the text of a u16 and
\* the info the text of a JSON value; when one of these fails it returns
\* the error of the first that does, in the order NoPort, BadPort, NoUuid,
\* NoEvent, NoInfo, BadInfo, wherever the arguments stand in the list.
C28_FirstFailingParameter ==
    callRet # NoResult =>
        LET port == ValueOf(callArg.args, "-port")
            uuid == ValueOf(callArg.args, "-pluginUUID")
            event == ValueOf(callArg.args, "-registerEvent")
            info == ValueOf(callArg.args, "-info")
            failing ==
                CASE ~port.some -> "NoPort"
                  [] ~u16_from_str(Chars(port.v)).ok -> "BadPort"
                  [] ~uuid.some -> "NoUuid"
                  [] ~event.some -> "NoEvent"
                  [] ~info.some -> "NoInfo"
                  [] JsonOf(info.v) = JInvalid -> "BadInfo"
                  [] OTHER -> "none"
        IN  /\ callRet.ret.tag = "Ok" => failing = "none"
            /\ failing # "none" => callRet.ret = ParamsErr(failing)
            /\ callRet.ret.tag = "Ok" =>
                  /\ callRet.ret.port = u16_from_str(Chars(port.v)).v
                  /\ callRet.ret.uuid = uuid.v
                  /\ callRet.ret.event = event.v

\* C28 witness: the four parameters stood in the order info, event, uuid,
\* port, and from_args returned Ok with the port 8000.
C28_Witness ==
    /\ callRet # NoResult
    /\ callArg.args = <<"plugin", "-info", "{info}", "-registerEvent",
                        "registerPlugin", "-pluginUUID", "abc-123",
                        "-port", "8000">>
    /\ callRet.ret.tag = "Ok"
    /\ callRet.ret.port = 8000

\* C29: what the loop of from_args leaves as a parameter is made of the
\* argument after the last argument that names the parameter and is not
\* itself the value of a name before it; it is absent when there is no such
\* name or nothing after the last one.
C29_LastOccurrenceWins ==
    callRet # NoResult =>
        LET port == ValueOf(callArg.args, "-port")
            info == ValueOf(callArg.args, "-info")
        IN  /\ callRet.found.uuid = ValueOf(callArg.args, "-pluginUUID")
            /\ callRet.found.event = ValueOf(callArg.args, "-registerEvent")
            /\ callRet.found.port =
                  IF port.some THEN Some(u16_from_str(Chars(port.v))) ELSE None
            /\ callRet.found.info =
                  IF info.some THEN Some(info_from_str(info.v)) ELSE None

\* C29 witness: -port was given 8000 and then stood last with nothing after
\* it, and the port ended up absent.
C29_Witness ==
    /\ callRet # NoResult
    /\ callArg.args = <<"-port", "8000", "x", "-port">>
    /\ callRet.found.port = None
    /\ callRet.ret = ParamsErr("NoPort")

(***************************************************************************)
(* property_inspector.rs: Message                                          *)
(***************************************************************************)
\* enum property_inspector::Message<G, S, M>; no variant is marked
\* #[serde(other)].
InspectorMessageVariants ==
    << Variant("DidReceiveSettings", "didReceiveSettings", ActionFields(KeyPayload)),
       Variant("DidReceiveGlobalSettings", "didReceiveGlobalSettings",
               <<Field("payload", GlobalSettingsPayload)>>),
       Variant("SendToPropertyInspector", "sendToPropertyInspector",
               <<Field("action", TString), Field("context", TString),
                 Field("payload", MType)>>) >>

\* DecodeInspectorMessage as it would be with the Unknown variant of the
\* plugin's Message.
DecodeInspectorMessageWithOther(j) ==
    DecodeTagged(InspectorMessageVariants, Some(UnknownVariant), j)

\* serde_json::from_str::<property_inspector::Message<G, S, M>>
DecodeInspectorMessage(j) == DecodeTagged(InspectorMessageVariants, None, j)

InspectorTags ==
    {InspectorMessageVariants[i].tag : i \in DOMAIN InspectorMessageVariants}
\* The tags tried that the property inspector's Message has not.
ForeignTags == (RecognizedTags \cup UnknownTags) \ InspectorTags

\* The object `j` with the value of its member "event" replaced by `tag`.
Retag(j, tag) ==
    JObj([i \in DOMAIN j.o |->
            IF j.o[i].k = "event" THEN Member("event", JStr(tag)) ELSE j.o[i]])

\* The texts tried: the three messages of the property inspector, each also
\* under every foreign tag; every message of the plugin; objects with an
\* unrecognized tag among other members; and arrays that start with a tag.
InspectorOwn ==
    {EncodeTagged(InspectorMessageVariants, RefValue(InspectorMessageVariants[i])) :
        i \in DOMAIN InspectorMessageVariants}
InspectorTexts ==
    InspectorOwn
    \cup {Retag(j, tag) : j \in InspectorOwn, tag \in ForeignTags}
    \cup {RefJson(MessageVariants[i]) : i \in DOMAIN MessageVariants}
    \cup {p.json : p \in UnknownProbes}
    \cup {JArr(<<JStr(tag)>>) : tag \in ForeignTags \cup InspectorTags}

InitInspector ==
    /\ Established
    /\ StreamIdle
    /\ \E j \in InspectorTexts : callArg = [fn |-> "inspector", json |-> j]
    /\ callRet = NoResult

\* A text decoded as a message of the property inspector, and beside it as
\* a message of the plugin.
InspectorDecode ==
    /\ callArg.fn = "inspector"
    /\ callRet = NoResult
    /\ callRet' = [tag |-> "Done",
                   inspector |-> DecodeInspectorMessage(callArg.json),
                   plugin |-> DecodeMessage(callArg.json)]
    /\ UNCHANGED <<connectVars, streamVars, callArg>>

NextInspector == InspectorDecode

SpecInspector == InitInspector /\ [][NextInspector]_vars

\* The tag of a text: the string that is the one member "event" of an
\* object or the first element of an array.
TagOf(j) ==
    CASE j.t = "obj" /\ Cardinality(At(j.o, "event")) = 1 ->
           LET v == j.o[CHOOSE i \in At(j.o, "event") : TRUE].v
           IN  IF v.t = "str" THEN Some(v.s) ELSE None
      [] j.t = "arr" /\ j.a # <<>> ->
           IF j.a[1].t = "str" THEN Some(j.a[1].s) ELSE None
      [] OTHER -> None

\* C30: a text whose tag is none of didReceiveSettings,
\* didReceiveGlobalSettings and sendToPropertyInspector is not decoded as a
\* message of the property inspector: the outcome is an error, whatever the
\* text holds beside the tag.
C30_InspectorHasNoCatchAll ==
    LET tag == TagOf(callArg.json)
        foreign == tag.some /\ tag.v \notin {"didReceiveSettings",
                                              "didReceiveGlobalSettings",
                                              "sendToPropertyInspector"}
    IN  (callRet # NoResult /\ foreign) => callRet.inspector = Bad

\* C30 witness: an object that the plugin's Message decodes as Unknown is an
\* error for the property inspector's.
C30_Witness ==
    /\ callRet # NoResult
    /\ callArg.json = JObj(<<Member("event", JStr("dialPress"))>>)
    /\ callRet.inspector = Bad
    /\ callRet.plugin = Ok([variant |-> "Unknown", fields |-> <<>>])

====
